---- MODULE Spec2Model ----
(***************************************************************************)
(* ProofPay: receipt ingestion (lib/webhooks.js) and the share-token       *)
(* lifecycle with its verification-state resolver (lib/receipt-shares.js). *)
(*                                                                         *)
(* The relational store is the only shared resource.  Every `await` on a   *)
(* store query is one atomic step of a call; between two steps of one call *)
(* any step of another call, a clock tick or a change made by an external  *)
(* collaborator may happen.                                                *)
(*                                                                         *)
(* Specifications                                                          *)
(*   SpecResolve  determineVerificationState applied to arbitrary inputs   *)
(*   Spec         get / verify / void calls racing on one stored token     *)
(*   SpecSeq      the same calls, one at a time                            *)
(*   SpecCreate   createOrGetShareToken calls racing for one receipt       *)
(*   SpecIngest   handleSquareWebhook deliveries racing on payment ids     *)
(***************************************************************************)
EXTENDS Integers, Sequences, FiniteSets, TLC

VARIABLES
    now,        \* the clock read by `new Date()`
    shares,     \* table receipt_shares: sequence of rows, id = index
    receipts,   \* table receipts: sequence of rows, id = index
    disputes,   \* table disputes: sequence of rows
    items,      \* table receipt_items: sequence of rows
    calls,      \* per running call: its operation, position and locals
    hist,       \* history of returned results (read by the properties only)
    probe,      \* SpecResolve: the resolver's arguments and its result
    square,     \* the payment processor: each payment's order, for ingestion
    disputeItems, \* table dispute_items: sequence of rows
    bankSettings  \* table bank_settings: one row per key, or none

vars == <<now, shares, receipts, disputes, items, calls, hist, probe, square,
          disputeItems, bankSettings>>

(***************************************************************************)
(* Bounds                                                                  *)
(***************************************************************************)
MaxTime     == 2    \* the clock runs 1..MaxTime
MaxCalls    == 3    \* calls started in one behaviour
MaxDisputes == 2    \* length of the dispute list handed to the resolver
MaxItems    == 2    \* line items of an order
MaxOpen     == 1    \* disputes submitted in one behaviour
MaxQuantity == 2    \* the largest quantity a dispute request asks for

(***************************************************************************)
(* Values                                                                  *)
(***************************************************************************)
NULL == -1          \* JavaScript null / SQL NULL for timestamps and ids

Procs == {1, 2}        \* request slots: two calls can be in flight at once

Statuses == {"active", "verified", "used", "voided", "expired"}

DisputeStatuses == {"submitted", "in_review", "resolved"}

States == {"VALID", "REFUNDED", "DISPUTED", "EXPIRED", "INVALID"}

RECURSIVE SeqsUpTo(_, _)
SeqsUpTo(S, n) ==
    IF n = 0 THEN {<<>>}
    ELSE LET shorter == SeqsUpTo(S, n - 1)
         IN  shorter \cup {Append(s, x) : s \in shorter, x \in S}

(***************************************************************************)
(* determineVerificationState(share, receipt, activeDisputes)              *)
(* `absent` stands for null/undefined.  Reading a property of an absent    *)
(* share throws a TypeError before any rule is evaluated.                  *)
(***************************************************************************)
Absent == [absent |-> TRUE]

IsAbsent(x) == "absent" \in DOMAIN x

\* the keys of bank_settings the administrative endpoints read and write
SettingKeys == {"confidence_threshold", "receipt_retention_days", "kill_switch"}

\* bank_settings before any setting was written: no row for any key
NoSettings == [k \in SettingKeys |-> Absent]

\* share.expires_at && new Date(share.expires_at) < new Date()
IsExpiredAt(share, t) == share.expires_at # NULL /\ share.expires_at < t

\* activeDisputes.some(d => d.status === 'submitted')
HasSubmittedDispute(ds) ==
    \E i \in 1..Len(ds) : ds[i].status = "submitted"

\* activeDisputes.some(d => d.status === 'submitted' || d.status === 'in_review')
HasActiveDispute(ds) ==
    \E i \in 1..Len(ds) : ds[i].status \in {"submitted", "in_review"}

determineVerificationStateVoidFirst(share, receipt, activeDisputes, t) ==
    IF IsAbsent(share) THEN "TypeError"
    ELSE IF share.status = "voided" THEN "INVALID"
    ELSE IF IsExpiredAt(share, t) THEN "EXPIRED"
    ELSE IF share.single_use /\ share.used_at # NULL THEN "INVALID"
    ELSE IF IsAbsent(receipt) THEN "INVALID"
    ELSE IF receipt.source = "simulated" /\ receipt.demo_expired_qr THEN "EXPIRED"
    ELSE IF receipt.source = "simulated" /\ receipt.demo_refunded THEN "REFUNDED"
    ELSE IF receipt.source = "simulated" /\ receipt.demo_disputed THEN "DISPUTED"
    ELSE IF receipt.refunded THEN "REFUNDED"
    ELSE IF HasActiveDispute(activeDisputes) THEN "DISPUTED"
    ELSE "VALID"

\* the resolver that looks at the disputes before the refund
determineVerificationStateDisputeFirst(share, receipt, activeDisputes, t) ==
    IF IsAbsent(share) THEN "TypeError"
    ELSE IF IsExpiredAt(share, t) THEN "EXPIRED"
    ELSE IF share.status = "voided" THEN "INVALID"
    ELSE IF share.single_use /\ share.used_at # NULL THEN "INVALID"
    ELSE IF IsAbsent(receipt) THEN "INVALID"
    ELSE IF receipt.source = "simulated" /\ receipt.demo_expired_qr THEN "EXPIRED"
    ELSE IF receipt.source = "simulated" /\ receipt.demo_refunded THEN "REFUNDED"
    ELSE IF receipt.source = "simulated" /\ receipt.demo_disputed THEN "DISPUTED"
    ELSE IF HasActiveDispute(activeDisputes) THEN "DISPUTED"
    ELSE IF receipt.refunded THEN "REFUNDED"
    ELSE "VALID"

determineVerificationState(share, receipt, activeDisputes, t) ==
    IF IsAbsent(share) THEN "TypeError"
    ELSE IF IsExpiredAt(share, t) THEN "EXPIRED"
    ELSE IF share.status = "voided" THEN "INVALID"
    ELSE IF share.single_use /\ share.used_at # NULL THEN "INVALID"
    ELSE IF IsAbsent(receipt) THEN "INVALID"
    ELSE IF receipt.source = "simulated" /\ receipt.demo_expired_qr THEN "EXPIRED"
    ELSE IF receipt.source = "simulated" /\ receipt.demo_refunded THEN "REFUNDED"
    ELSE IF receipt.source = "simulated" /\ receipt.demo_disputed THEN "DISPUTED"
    ELSE IF receipt.refunded THEN "REFUNDED"
    ELSE IF HasActiveDispute(activeDisputes) THEN "DISPUTED"
    ELSE "VALID"

(***************************************************************************)
(* Store rows and queries                                                  *)
(***************************************************************************)
Tokens == {"tokA", "tokB"}      \* values generateShareToken can draw

Merchants == {NULL, 1}          \* options.merchantId (null or an identity)

\* the row createOrGetShareToken inserts (verification_attempts and the
\* verified_* / used_at columns take their column defaults)
NewShare(receiptId, token, expiresAt, singleUse) ==
    [receipt_id |-> receiptId, token |-> token, expires_at |-> expiresAt,
     view_count |-> 0, status |-> "active", single_use |-> singleUse,
     used_at |-> NULL, verification_attempts |-> 0,
     verified_at |-> NULL, verified_by |-> NULL]

\* the row createReceipt inserts; the flags are set later by other services
NewReceipt(paymentId, source) ==
    [payment_id |-> paymentId, source |-> source, refunded |-> FALSE,
     demo_refunded |-> FALSE, demo_disputed |-> FALSE,
     demo_expired_qr |-> FALSE,
     confidence_score |-> NULL, confidence_label |-> "none"]

\* .from('receipt_shares').select('*').eq('token', token)
SharesByToken(token) == {i \in 1..Len(shares) : shares[i].token = token}

\* .single(): the row when exactly one matches, otherwise an error and no data
SingleShare(token) ==
    IF Cardinality(SharesByToken(token)) = 1
    THEN LET i == CHOOSE j \in SharesByToken(token) : TRUE
         IN  shares[i] @@ [id |-> i]
    ELSE Absent

\* .from('receipts').select('*').eq('id', id).single()
SingleReceipt(id) ==
    IF id \in 1..Len(receipts) THEN receipts[id] @@ [id |-> id] ELSE Absent

\* .from('disputes').select('id, status').eq('receipt_id', id)
\*     .in('status', ['submitted', 'in_review'])
RECURSIVE ActiveDisputesFrom(_, _)
ActiveDisputesFrom(receiptId, i) ==
    IF i > Len(disputes) THEN <<>>
    ELSE IF disputes[i].receipt_id = receiptId
            /\ disputes[i].status \in {"submitted", "in_review"}
         THEN <<[id |-> i, status |-> disputes[i].status]>>
              \o ActiveDisputesFrom(receiptId, i + 1)
         ELSE ActiveDisputesFrom(receiptId, i + 1)

ActiveDisputes(receiptId) == ActiveDisputesFrom(receiptId, 1)

\* .update(fields).eq('id', id): rows that do not match are left alone
UpdateShareById(id, fields) ==
    [i \in 1..Len(shares) |->
        IF i = id
        THEN [f \in DOMAIN shares[i] |->
                 IF f \in DOMAIN fields THEN fields[f] ELSE shares[i][f]]
        ELSE shares[i]]

\* .update(fields).eq('token', token)
UpdateSharesByToken(token, fields) ==
    [i \in 1..Len(shares) |->
        IF shares[i].token = token
        THEN [f \in DOMAIN shares[i] |->
                 IF f \in DOMAIN fields THEN fields[f] ELSE shares[i][f]]
        ELSE shares[i]]

(***************************************************************************)
(* Calls                                                                   *)
(***************************************************************************)
NoResult ==
    [valid |-> FALSE, state |-> "none", reason |-> "none", status |-> "none",
     view_count |-> NULL, attempts |-> NULL,
     processed |-> FALSE, receipt_id |-> NULL, item_count |-> NULL,
     token |-> "none", share_id |-> NULL,
     code |-> NULL, message |-> "none", dispute_id |-> NULL]

Idle ==
    [op |-> "idle", pc |-> "idle", token |-> "none", share |-> Absent,
     receipt |-> Absent, state |-> "none", markAsUsed |-> FALSE,
     merchantId |-> NULL, afterVoid |-> FALSE, afterUse |-> FALSE,
     payment_id |-> "none", lines |-> NULL, receipt_id |-> NULL,
     fresh |-> FALSE, duplicate |-> FALSE,
     expiresAt |-> NULL, singleUse |-> "null", attempts |-> 0,
     selected_items |-> <<>>, validSelectedItems |-> <<>>,
     disputedTotalCents |-> 0, dispute_id |-> NULL,
     disputesMissed |-> FALSE]

Free(p) == calls[p].op = "idle"

\* a request takes the lowest free slot
CanStart(p) ==
    /\ Free(p)
    /\ \A q \in Procs : q < p => ~Free(q)
    /\ hist.started < MaxCalls

\* a call begins: its locals, and what had already been returned for the token
Begin(op, token) ==
    [Idle EXCEPT !.op = op, !.token = token,
                 !.afterVoid = token \in hist.voided,
                 !.afterUse = hist.validReads[token] > 0]

\* the place in selected_items of the first item without a receipt_item_id
\* or with one that is not an item of the receipt; 0 when there is none
FirstRefusedItem(c) ==
    LET refused == {i \in 1..Len(c.selected_items) :
                     \/ c.selected_items[i].receipt_item_id = NULL
                     \/ c.selected_items[i].receipt_item_id \notin
                          {k \in 1..Len(items) :
                              items[k].receipt_id = c.receipt_id}}
    IN  IF refused = {} THEN 0
        ELSE CHOOSE i \in refused : \A j \in refused : i <= j

\* what is remembered of the call that returned last
Returned(c, res) ==
    [op |-> c.op, token |-> c.token, afterVoid |-> c.afterVoid,
     afterUse |-> c.afterUse, markAsUsed |-> c.markAsUsed,
     found |-> ~IsAbsent(c.share),
     status |-> IF IsAbsent(c.share) THEN "none" ELSE c.share.status,
     single_use |-> IF IsAbsent(c.share) THEN FALSE ELSE c.share.single_use,
     expires_at |-> IF IsAbsent(c.share) THEN NULL ELSE c.share.expires_at,
     payment_id |-> c.payment_id, fresh |-> c.fresh, duplicate |-> c.duplicate,
     receipt_id |-> c.receipt_id, expiresAt |-> c.expiresAt,
     merchantId |-> c.merchantId,
     refusedItem |-> FirstRefusedItem(c),
     disputesMissed |-> c.disputesMissed,
     result |-> res]

NoReturn ==
    [op |-> "none", token |-> "none", afterVoid |-> FALSE, afterUse |-> FALSE,
     markAsUsed |-> FALSE, found |-> FALSE, status |-> "none",
     single_use |-> FALSE,
     expires_at |-> NULL, payment_id |-> "none", fresh |-> FALSE,
     duplicate |-> FALSE, receipt_id |-> NULL, expiresAt |-> NULL,
     merchantId |-> NULL, refusedItem |-> 0,
     disputesMissed |-> FALSE, result |-> NoResult]

\* hist.last holds the call that returned in the step just taken, if any
Quiet(h) == [h EXCEPT !.last = NoReturn]

Started(h) == [h EXCEPT !.started = @ + 1]

\* call `c` returns `res`: a VALID read of a single-use token is counted
Finished(h, c, res) ==
    [h EXCEPT !.returned = @ + 1,
              !.last = Returned(c, res),
              !.validReads[c.token] =
                  IF c.op = "get" /\ res.state = "VALID"
                     /\ ~IsAbsent(c.share) /\ c.share.single_use
                  THEN @ + 1 ELSE @,
              !.voided = IF c.op = "void" /\ res.valid
                         THEN @ \cup {c.token} ELSE @]

\* call `c` in slot p returns `res`
Return(p, h, c, res) ==
    /\ calls' = [calls EXCEPT ![p] = Idle]
    /\ hist' = Finished(h, c, res)

\* call `c` in slot p goes on to its next step
Continue(p, h, c) ==
    /\ calls' = [calls EXCEPT ![p] = c]
    /\ hist' = Quiet(h)

(***************************************************************************)
(* getReceiptByToken(token)                                                *)
(***************************************************************************)
\* the result that reports the view count as it was read
GetResultAsRead(c) ==
    [NoResult EXCEPT !.state = c.state,
                     !.status = c.share.status,
                     !.view_count = c.share.view_count,
                     !.attempts = c.share.verification_attempts + 1]

GetResult(c) ==
    [NoResult EXCEPT !.state = c.state,
                     !.status = c.share.status,
                     !.view_count = c.share.view_count + 1,
                     !.attempts = c.share.verification_attempts + 1]

\* the answer for a read that reports no verification state
InvalidWithoutState(reason) == [NoResult EXCEPT !.reason = reason]

Invalid(reason) == [NoResult EXCEPT !.state = "INVALID", !.reason = reason]

\* the call arrives and looks the share up by its token
GetFindShare(p, token) ==
    /\ CanStart(p)
    /\ LET c     == Begin("get", token)
           share == SingleShare(token)
       IN  IF IsAbsent(share)
           THEN Return(p, Started(hist), c, Invalid("Token not found"))
           ELSE Continue(p, Started(hist),
                         [c EXCEPT !.pc = "g_receipt", !.share = share])
    /\ UNCHANGED <<now, shares, receipts, disputes, items, probe, square, disputeItems, bankSettings>>

\* fetch the owning receipt
GetFindReceipt(p) ==
    /\ calls[p].pc = "g_receipt"
    /\ LET c       == calls[p]
           receipt == SingleReceipt(c.share.receipt_id)
       IN  IF IsAbsent(receipt)
           THEN Return(p, hist, c, Invalid("Receipt not found"))
           ELSE Continue(p, hist,
                         [c EXCEPT !.pc = "g_disputes", !.receipt = receipt])
    /\ UNCHANGED <<now, shares, receipts, disputes, items, probe, square, disputeItems, bankSettings>>

\* fetch the active disputes (a failed query counts as none) and resolve;
\* disputesMissed: the failed query hid an active dispute
GetResolve(p) ==
    /\ calls[p].pc = "g_disputes"
    /\ \E queryOk \in BOOLEAN :
         LET c     == calls[p]
             found == IF queryOk THEN ActiveDisputes(c.receipt.id) ELSE <<>>
             state == determineVerificationState(c.share, c.receipt, found, now)
         IN  Continue(p, hist,
                 [c EXCEPT !.pc = IF state = "EXPIRED" /\ c.share.status # "expired"
                                  THEN "g_expire" ELSE "g_update",
                           !.state = state, !.receipt = Absent,
                           !.disputesMissed = found # ActiveDisputes(c.receipt.id)])
    /\ UNCHANGED <<now, shares, receipts, disputes, items, probe, square, disputeItems, bankSettings>>

\* the lazy transition to expired
GetMarkExpired(p) ==
    /\ calls[p].pc = "g_expire"
    /\ shares' = UpdateShareById(calls[p].share.id, [status |-> "expired"])
    /\ Continue(p, hist, [calls[p] EXCEPT !.pc = "g_update"])
    /\ UNCHANGED <<now, receipts, disputes, items, probe, square, disputeItems, bankSettings>>

GetUpdateDataNeverUsed(c, t) ==
    [view_count |-> c.share.view_count + 1,
     verification_attempts |-> c.share.verification_attempts + 1]

GetUpdateDataValidOnly(c, t) ==
    IF c.state # "VALID" THEN [status |-> c.share.status]
    ELSE [view_count |-> c.share.view_count + 1,
          verification_attempts |-> c.share.verification_attempts + 1]
         @@ (IF c.share.single_use /\ c.share.used_at = NULL
             THEN [used_at |-> t] ELSE <<>>)

\* updateData that consumes a single-use token whatever state was resolved
GetUpdateDataWhateverState(c, t) ==
    [view_count |-> c.share.view_count + 1,
     verification_attempts |-> c.share.verification_attempts + 1]
    @@ (IF c.share.single_use /\ c.share.used_at = NULL
        THEN [used_at |-> t] ELSE <<>>)

\* updateData: the counters read at the start plus one, and used_at for the
\* first VALID read of a single-use token
GetUpdateData(c, t) ==
    [view_count |-> c.share.view_count + 1,
     verification_attempts |-> c.share.verification_attempts + 1]
    @@ (IF c.share.single_use /\ c.state = "VALID" /\ c.share.used_at = NULL
        THEN [used_at |-> t] ELSE <<>>)

\* persist the counters, read the items and return
GetCountAndReturn(p) ==
    /\ calls[p].pc = "g_update"
    /\ shares' = UpdateShareById(calls[p].share.id, GetUpdateData(calls[p], now))
    /\ Return(p, hist, calls[p], GetResult(calls[p]))
    /\ UNCHANGED <<now, receipts, disputes, items, probe, square, disputeItems, bankSettings>>

(***************************************************************************)
(* verifyShareToken(token, {merchantId, markAsUsed})                       *)
(***************************************************************************)
Refusal(reason, status) ==
    [NoResult EXCEPT !.reason = reason, !.status = status]

\* the arrival that refuses a used token whether or not markAsUsed is asked
VerifyFindShareRefusingUsed(p, token, markAsUsed, merchantId) ==
    /\ CanStart(p)
    /\ LET share == SingleShare(token)
           h     == Started(hist)
           c     == [Begin("verify", token) EXCEPT !.markAsUsed = markAsUsed,
                                                   !.merchantId = merchantId,
                                                   !.share = share]
       IN  IF IsAbsent(share)
           THEN Return(p, h, c, Refusal("Token not found", "none"))
           ELSE IF IsExpiredAt(share, now)
                THEN IF share.status # "expired"
                     THEN Continue(p, h, [c EXCEPT !.pc = "v_expire"])
                     ELSE Return(p, h, c, Refusal("Token expired", "expired"))
           ELSE IF share.status = "voided"
                THEN Return(p, h, c, Refusal("Token voided", "voided"))
           ELSE IF share.status = "used"
                THEN Return(p, h, c, Refusal("Token already used", "used"))
           ELSE Continue(p, h, [c EXCEPT !.pc = "v_receipt"])
    /\ UNCHANGED <<now, shares, receipts, disputes, items, probe, square, disputeItems, bankSettings>>

\* the call arrives, looks the share up and runs the checks made on it alone
VerifyFindShare(p, token, markAsUsed, merchantId) ==
    /\ CanStart(p)
    /\ LET share == SingleShare(token)
           h     == Started(hist)
           c     == [Begin("verify", token) EXCEPT !.markAsUsed = markAsUsed,
                                                   !.merchantId = merchantId,
                                                   !.share = share]
       IN  IF IsAbsent(share)
           THEN Return(p, h, c, Refusal("Token not found", "none"))
           ELSE IF IsExpiredAt(share, now)
                THEN IF share.status # "expired"
                     THEN Continue(p, h, [c EXCEPT !.pc = "v_expire"])
                     ELSE Return(p, h, c, Refusal("Token expired", "expired"))
           ELSE IF share.status = "voided"
                THEN Return(p, h, c, Refusal("Token voided", "voided"))
           ELSE IF markAsUsed /\ share.status = "used"
                THEN Return(p, h, c, Refusal("Token already used", "used"))
           ELSE Continue(p, h, [c EXCEPT !.pc = "v_receipt"])
    /\ UNCHANGED <<now, shares, receipts, disputes, items, probe, square, disputeItems, bankSettings>>

VerifyMarkExpired(p) ==
    /\ calls[p].pc = "v_expire"
    /\ shares' = UpdateShareById(calls[p].share.id, [status |-> "expired"])
    /\ Return(p, hist, calls[p], Refusal("Token expired", "expired"))
    /\ UNCHANGED <<now, receipts, disputes, items, probe, square, disputeItems, bankSettings>>

\* fetch the receipt and its items
VerifyFindReceipt(p) ==
    /\ calls[p].pc = "v_receipt"
    /\ LET c       == calls[p]
           receipt == SingleReceipt(c.share.receipt_id)
       IN  IF IsAbsent(receipt)
           THEN Return(p, hist, c, Refusal("Receipt not found", "none"))
           ELSE Continue(p, hist,
                         [c EXCEPT !.pc = "v_disputes", !.receipt = receipt])
    /\ UNCHANGED <<now, shares, receipts, disputes, items, probe, square, disputeItems, bankSettings>>

RefusalReason(state) ==
    IF state = "EXPIRED" THEN "Token expired"
    ELSE IF state = "REFUNDED" THEN "Receipt has been refunded"
    ELSE IF state = "DISPUTED" THEN "Receipt is under dispute"
    ELSE "Token invalid"

\* fetch the active disputes, resolve, and return early unless VALID
VerifyResolve(p) ==
    /\ calls[p].pc = "v_disputes"
    /\ \E queryOk \in BOOLEAN :
         LET c     == calls[p]
             found == IF queryOk THEN ActiveDisputes(c.receipt.id) ELSE <<>>
             state == determineVerificationState(c.share, c.receipt, found, now)
             c2    == [c EXCEPT !.disputesMissed =
                                   found # ActiveDisputes(c.receipt.id)]
         IN  IF state # "VALID"
             THEN Return(p, hist, c2,
                         [NoResult EXCEPT !.state = state,
                                          !.reason = RefusalReason(state)])
             ELSE Continue(p, hist, [c2 EXCEPT !.pc = "v_update", !.state = state,
                                               !.receipt = Absent])
    /\ UNCHANGED <<now, shares, receipts, disputes, items, probe, square, disputeItems, bankSettings>>

\* updateData that marks the token used on every VALID verification
VerifyUpdateDataAlwaysUsed(c, t) ==
    [verification_attempts |-> c.share.verification_attempts + 1,
     status |-> "used", verified_at |-> t]
    @@ (IF c.merchantId # NULL THEN [verified_by |-> c.merchantId] ELSE <<>>)

\* updateData of a VALID verification
VerifyUpdateData(c, t) ==
    LET verifying == c.share.status = "active"
        stamping  == verifying \/ c.markAsUsed
    IN  [verification_attempts |-> c.share.verification_attempts + 1]
        @@ (IF c.markAsUsed THEN [status |-> "used"]
            ELSE IF verifying THEN [status |-> "verified"] ELSE <<>>)
        @@ (IF stamping THEN [verified_at |-> t] ELSE <<>>)
        @@ (IF stamping /\ c.merchantId # NULL
            THEN [verified_by |-> c.merchantId] ELSE <<>>)

VerifyRecordAndReturn(p) ==
    /\ calls[p].pc = "v_update"
    /\ LET c    == calls[p]
           data == VerifyUpdateData(c, now)
       IN  /\ shares' = UpdateShareById(c.share.id, data)
           /\ Return(p, hist, c,
                  [NoResult EXCEPT
                      !.valid = TRUE, !.state = c.state,
                      !.status = IF "status" \in DOMAIN data
                                 THEN data.status ELSE c.share.status,
                      !.view_count = c.share.view_count,
                      !.attempts = data.verification_attempts])
    /\ UNCHANGED <<now, receipts, disputes, items, probe, square, disputeItems, bankSettings>>

(***************************************************************************)
(* voidShareToken(token)                                                   *)
(***************************************************************************)
\* an update that voids only a token that is still active
VoidUpdateActiveOnly(token) ==
    [i \in 1..Len(shares) |->
        IF shares[i].token = token /\ shares[i].status = "active"
        THEN [shares[i] EXCEPT !.status = "voided"] ELSE shares[i]]

VoidUpdate(token) == UpdateSharesByToken(token, [status |-> "voided"])

\* one update by token; a store error is reported as false
VoidShareToken(p, token) ==
    /\ CanStart(p)
    /\ \E updateOk \in BOOLEAN :
         /\ shares' = IF updateOk THEN VoidUpdate(token) ELSE shares
         /\ Return(p, Started(hist), Begin("void", token),
                   [NoResult EXCEPT !.valid = updateOk])
    /\ UNCHANGED <<now, receipts, disputes, items, probe, square, disputeItems, bankSettings>>

(***************************************************************************)
(* The clock and the external collaborators                                *)
(***************************************************************************)
Tick ==
    /\ now < MaxTime
    /\ now' = now + 1
    /\ hist' = Quiet(hist)
    /\ UNCHANGED <<shares, receipts, disputes, items, calls, probe, square, disputeItems, bankSettings>>

\* the refund processor marks a receipt refunded
MarkRefunded(r) ==
    /\ ~receipts[r].refunded
    /\ receipts' = [receipts EXCEPT ![r].refunded = TRUE]
    /\ hist' = Quiet(hist)
    /\ UNCHANGED <<now, shares, disputes, items, calls, probe, square, disputeItems, bankSettings>>

\* POST /api/disputes inserts a dispute with status submitted
SubmitDispute(r) ==
    /\ Len(disputes) < MaxOpen
    /\ disputes' = Append(disputes, [receipt_id |-> r, status |-> "submitted"])
    /\ hist' = Quiet(hist)
    /\ UNCHANGED <<now, shares, receipts, items, calls, probe, square, disputeItems, bankSettings>>

\* the dispute desk moves a dispute on: submitted, in_review, resolved
AdvanceDispute(d) ==
    /\ disputes[d].status # "resolved"
    /\ disputes' = [disputes EXCEPT ![d].status =
                       IF @ = "submitted" THEN "in_review" ELSE "resolved"]
    /\ hist' = Quiet(hist)
    /\ UNCHANGED <<now, shares, receipts, items, calls, probe, square, disputeItems, bankSettings>>

\* the receipt as ingestion leaves it, or a simulated one whose QR code the
\* demo console has marked expired
ReceiptsAtStart ==
    {NewReceipt("pay1", "webhook"),
     [NewReceipt("pay1", "simulated") EXCEPT !.demo_expired_qr = TRUE]}

(***************************************************************************)
(* Spec: calls on one stored token, racing                                 *)
(***************************************************************************)
NoHist ==
    [started |-> 0, returned |-> 0, voided |-> {},
     validReads |-> [t \in Tokens |-> 0],
     last |-> NoReturn]

PaymentIds == {"pay1", "pay2"}

\* no order behind any payment
NoSquare == [id \in PaymentIds |-> NULL]

NoProbe == [share |-> Absent, receipt |-> Absent, disputes |-> <<>>,
            state |-> "none", at |-> 0, again |-> "none", againAt |-> 0]

\* one receipt and the share token createOrGetShareToken has inserted for
\* it: one that never expires, or one that expires once the clock moves on
Init ==
    /\ now = 1
    /\ \E receipt \in ReceiptsAtStart : receipts = <<receipt>>
    /\ \E expiresAt \in {NULL, now}, singleUse \in BOOLEAN :
         shares = <<NewShare(1, "tokA", expiresAt, singleUse)>>
    /\ disputes = <<>>
    /\ items = <<>>
    /\ calls = [p \in Procs |-> Idle]
    /\ hist = NoHist
    /\ probe = NoProbe
    /\ square = NoSquare
    /\ disputeItems = <<>>
    /\ bankSettings = NoSettings

CallStep(p) ==
    \/ \E token \in Tokens : GetFindShare(p, token)
    \/ GetFindReceipt(p)
    \/ GetResolve(p)
    \/ GetMarkExpired(p)
    \/ GetCountAndReturn(p)
    \/ \E token \in Tokens, markAsUsed \in BOOLEAN :
         VerifyFindShare(p, token, markAsUsed, NULL)
    \/ VerifyMarkExpired(p)
    \/ VerifyFindReceipt(p)
    \/ VerifyResolve(p)
    \/ VerifyRecordAndReturn(p)
    \/ \E token \in Tokens : VoidShareToken(p, token)

Next == (\E p \in Procs : CallStep(p)) \/ Tick

Spec == Init /\ [][Next]_vars

(***************************************************************************)
(* SpecSeq: the same calls, each running to its return before the next     *)
(* call or the next change of an external collaborator                     *)
(***************************************************************************)
NoneRunning == \A p \in Procs : Free(p)

SeqStep(p) ==
    \/ NoneRunning /\ \E token \in Tokens : GetFindShare(p, token)
    \/ GetFindReceipt(p)
    \/ GetResolve(p)
    \/ GetMarkExpired(p)
    \/ GetCountAndReturn(p)
    \/ NoneRunning
       /\ \E token \in Tokens, markAsUsed \in BOOLEAN, merchantId \in Merchants :
            VerifyFindShare(p, token, markAsUsed, merchantId)
    \/ VerifyMarkExpired(p)
    \/ VerifyFindReceipt(p)
    \/ VerifyResolve(p)
    \/ VerifyRecordAndReturn(p)
    \/ NoneRunning /\ \E token \in Tokens : VoidShareToken(p, token)

NextSeq ==
    \/ \E p \in Procs : SeqStep(p)
    \/ \E r \in 1..Len(receipts) : NoneRunning /\ MarkRefunded(r)
    \/ \E r \in 1..Len(receipts) : NoneRunning /\ SubmitDispute(r)
    \/ \E d \in 1..Len(disputes) : NoneRunning /\ AdvanceDispute(d)
    \/ Tick

SpecSeq == Init /\ [][NextSeq]_vars

(***************************************************************************)
(* handleSquareWebhook(event): createReceipt and createReceiptItems        *)
(***************************************************************************)
\* .from('receipts').select('*').eq('payment_id', paymentId)
ReceiptsByPayment(paymentId) ==
    {i \in 1..Len(receipts) : receipts[i].payment_id = paymentId}

\* receipts.payment_id is UNIQUE: an insert of a payment id already stored
\* fails with code 23505
ViolatesUnique(paymentId) == ReceiptsByPayment(paymentId) # {}

Ignored(message) == [NoResult EXCEPT !.reason = message]

Failed == [NoResult EXCEPT !.reason = "Failed to process payment"]

\* the failure whose error is that of the payment fetch: the processor's
\* error, or 'Payment not found in Square API response'
FailedFetch == [Failed EXCEPT !.message = "Payment not fetched"]

Processed(c, itemCount) ==
    [NoResult EXCEPT !.processed = TRUE, !.receipt_id = c.receipt_id,
                     !.item_count = itemCount,
                     !.reason = "Receipt created successfully"]

\* order && order.lineItems && order.lineItems.length > 0
HasLineItems(c) == c.lines # NULL /\ c.lines > 0

\* the arrival that stores a receipt for the payment id of an event whose
\* payment could not be fetched
WebhookFetchPaymentRecording(p, type, paymentId) ==
    /\ CanStart(p)
    /\ LET c == [Idle EXCEPT !.op = "webhook", !.payment_id = paymentId,
                             !.fresh = ~ViolatesUnique(paymentId)]
           h == Started(hist)
       IN  IF type # "payment.created"
           THEN receipts' = receipts
                /\ Return(p, h, c, Ignored("Event type ignored"))
           ELSE IF paymentId = "none"
                THEN receipts' = receipts
                     /\ Return(p, h, c, Ignored("Payment ID not found in event"))
           ELSE \E fetched \in BOOLEAN :
                  IF ~fetched
                  THEN /\ receipts' = Append(receipts,
                                             NewReceipt(paymentId, "webhook"))
                       /\ Return(p, h, c, FailedFetch)
                  ELSE /\ receipts' = receipts
                       /\ IF square[paymentId] # NULL
                          THEN Continue(p, h, [c EXCEPT !.pc = "w_order"])
                          ELSE Continue(p, h, [c EXCEPT !.pc = "w_insert"])
    /\ UNCHANGED <<now, shares, disputes, items, probe, square, disputeItems, bankSettings>>

\* the event arrives; a payment.created event with a payment id has its
\* payment fetched from the processor
WebhookFetchPayment(p, type, paymentId) ==
    /\ CanStart(p)
    /\ LET c == [Idle EXCEPT !.op = "webhook", !.payment_id = paymentId,
                             !.fresh = ~ViolatesUnique(paymentId)]
           h == Started(hist)
       IN  IF type # "payment.created"
           THEN Return(p, h, c, Ignored("Event type ignored"))
           ELSE IF paymentId = "none"
                THEN Return(p, h, c, Ignored("Payment ID not found in event"))
           ELSE \E fetched \in BOOLEAN :
                  IF ~fetched THEN Return(p, h, c, FailedFetch)
                  ELSE IF square[paymentId] # NULL
                       THEN Continue(p, h, [c EXCEPT !.pc = "w_order"])
                       ELSE Continue(p, h, [c EXCEPT !.pc = "w_insert"])
    /\ UNCHANGED <<now, shares, receipts, disputes, items, probe, square, disputeItems, bankSettings>>

\* the order is fetched; a failure is logged and the call goes on without it
WebhookFetchOrder(p) ==
    /\ calls[p].pc = "w_order"
    /\ \E fetched \in BOOLEAN :
         Continue(p, hist,
             [calls[p] EXCEPT !.pc = "w_insert",
                              !.lines = IF fetched
                                        THEN square[calls[p].payment_id]
                                        ELSE NULL])
    /\ UNCHANGED <<now, shares, receipts, disputes, items, probe, square, disputeItems, bankSettings>>

\* where the call goes once it holds the receipt row
AfterReceipt(p, c) ==
    IF HasLineItems(c)
    THEN Continue(p, hist, [c EXCEPT !.pc = "w_items"])
    ELSE Return(p, hist, c, Processed(c, 0))

CreateReceiptBlind(p) ==
    /\ calls[p].pc = "w_insert"
    /\ \E stored \in BOOLEAN :
         LET c == calls[p]
         IN  IF ~stored
             THEN receipts' = receipts /\ Return(p, hist, c, Failed)
             ELSE /\ receipts' = Append(receipts, NewReceipt(c.payment_id, "webhook"))
                  /\ AfterReceipt(p, [c EXCEPT !.receipt_id = Len(receipts) + 1])
    /\ UNCHANGED <<now, shares, disputes, items, probe, square, disputeItems, bankSettings>>

\* createReceipt: the insert; a uniqueness violation sends the call to fetch
\* the row that is there, any other error fails the call
CreateReceipt(p) ==
    /\ calls[p].pc = "w_insert"
    /\ \E stored \in BOOLEAN :
         LET c == calls[p]
         IN  IF ViolatesUnique(c.payment_id)
             THEN /\ receipts' = receipts
                  /\ Continue(p, hist, [c EXCEPT !.pc = "w_existing",
                                                 !.duplicate = TRUE])
             ELSE IF ~stored
             THEN receipts' = receipts /\ Return(p, hist, c, Failed)
             ELSE /\ receipts' = Append(receipts, NewReceipt(c.payment_id, "webhook"))
                  /\ AfterReceipt(p, [c EXCEPT !.receipt_id = Len(receipts) + 1])
    /\ UNCHANGED <<now, shares, disputes, items, probe, square, disputeItems, bankSettings>>

ExistingReceiptAny(paymentId) ==
    IF receipts = <<>> THEN NULL ELSE 1

\* .eq('payment_id', paymentId).single(): the row's id, or nothing
ExistingReceipt(paymentId) ==
    IF Cardinality(ReceiptsByPayment(paymentId)) = 1
    THEN CHOOSE i \in ReceiptsByPayment(paymentId) : TRUE
    ELSE NULL

\* createReceipt after the violation: return the existing row; reading the
\* id of no row throws, which fails the call
FetchExisting(p) ==
    /\ calls[p].pc = "w_existing"
    /\ LET c        == calls[p]
           existing == ExistingReceipt(c.payment_id)
       IN  IF existing = NULL
           THEN Return(p, hist, c, Failed)
           ELSE AfterReceipt(p, [c EXCEPT !.receipt_id = existing])
    /\ UNCHANGED <<now, shares, receipts, disputes, items, probe, square, disputeItems, bankSettings>>

\* the rows createReceiptItems builds from the order's line items
ReceiptItemRows(receiptId, lines) ==
    [i \in 1..lines |-> [receipt_id |-> receiptId, line |-> i]]

\* createReceiptItems whose failure fails the call
CreateReceiptItemsOrFail(p) ==
    /\ calls[p].pc = "w_items"
    /\ \E stored \in BOOLEAN :
         LET c == calls[p]
         IN  IF stored
             THEN /\ items' = items \o
                        [i \in 1..c.lines |-> [receipt_id |-> c.receipt_id,
                                               line |-> i]]
                  /\ Return(p, hist, c, Processed(c, c.lines))
             ELSE /\ items' = items
                  /\ Return(p, hist, c, Failed)
    /\ UNCHANGED <<now, shares, receipts, disputes, probe, square, disputeItems, bankSettings>>

\* createReceiptItems: one bulk insert; its failure is logged and swallowed
CreateReceiptItems(p) ==
    /\ calls[p].pc = "w_items"
    /\ \E stored \in BOOLEAN :
         LET c == calls[p]
         IN  IF stored
             THEN /\ items' = items \o ReceiptItemRows(c.receipt_id, c.lines)
                  /\ Return(p, hist, c, Processed(c, c.lines))
             ELSE /\ items' = items
                  /\ Return(p, hist, c, Processed(c, 0))
    /\ UNCHANGED <<now, shares, receipts, disputes, probe, square, disputeItems, bankSettings>>

(***************************************************************************)
(* SpecIngest: webhook deliveries racing on the same payment ids           *)
(***************************************************************************)
\* what the processor holds: per payment no order, or an order of n lines
InitIngest ==
    /\ now = 1
    /\ shares = <<>>
    /\ receipts = <<>>
    /\ disputes = <<>>
    /\ items = <<>>
    /\ calls = [p \in Procs |-> Idle]
    /\ hist = NoHist
    /\ probe = NoProbe
    /\ square \in [PaymentIds -> {NULL} \cup (0..MaxItems)]
    /\ disputeItems = <<>>
    /\ bankSettings = NoSettings

IngestStep(p) ==
    \/ \E type \in {"payment.created", "payment.updated"},
          paymentId \in PaymentIds \cup {"none"} :
         WebhookFetchPayment(p, type, paymentId)
    \/ WebhookFetchOrder(p)
    \/ CreateReceipt(p)
    \/ FetchExisting(p)
    \/ CreateReceiptItems(p)

NextIngest == \E p \in Procs : IngestStep(p)

SpecIngest == InitIngest /\ [][NextIngest]_vars

(***************************************************************************)
(* createOrGetShareToken(receiptId, {expiresAt, singleUse})                *)
(***************************************************************************)
maxAttempts == 5

\* .eq('receipt_id', receiptId).is('expires_at', null)
\*     .order('created_at', { ascending: false }).limit(1).maybeSingle()
ExistingShare(receiptId) ==
    LET open == {i \in 1..Len(shares) :
                    shares[i].receipt_id = receiptId /\ shares[i].expires_at = NULL}
    IN  IF open = {} THEN NULL
        ELSE CHOOSE i \in open : \A j \in open : j <= i

Shared(status, id, token) ==
    [NoResult EXCEPT !.status = status, !.share_id = id, !.token = token]

\* a lookup that reuses a share only for a caller who asked for no expiry
ShareLookupByOptions(p, receiptId, expiresAt, singleUse) ==
    /\ CanStart(p)
    /\ LET c  == [Idle EXCEPT !.op = "share", !.receipt_id = receiptId,
                              !.expiresAt = expiresAt, !.singleUse = singleUse]
           id == IF expiresAt = NULL THEN ExistingShare(receiptId) ELSE NULL
       IN  IF id # NULL
           THEN Return(p, Started(hist), c, Shared("existing", id, shares[id].token))
           ELSE Continue(p, Started(hist), [c EXCEPT !.pc = "c_check"])
    /\ UNCHANGED <<now, shares, receipts, disputes, items, probe, square, disputeItems, bankSettings>>

\* the call arrives and looks for a share of the receipt that never expires;
\* one that is there is returned as it is
ShareLookup(p, receiptId, expiresAt, singleUse) ==
    /\ CanStart(p)
    /\ LET c  == [Idle EXCEPT !.op = "share", !.receipt_id = receiptId,
                              !.expiresAt = expiresAt, !.singleUse = singleUse]
           id == ExistingShare(receiptId)
       IN  IF id # NULL
           THEN Return(p, Started(hist), c, Shared("existing", id, shares[id].token))
           ELSE Continue(p, Started(hist), [c EXCEPT !.pc = "c_check"])
    /\ UNCHANGED <<now, shares, receipts, disputes, items, probe, square, disputeItems, bankSettings>>

\* where the call goes with a candidate it did not find in the store
AfterCheck(c) ==
    [c EXCEPT !.pc = IF c.singleUse = "null" THEN "c_settings" ELSE "c_insert"]

\* one turn of the loop: draw a candidate and look it up; .single() gives
\* data only when exactly one row matches
ShareDrawToken(p, token) ==
    /\ calls[p].pc = "c_check"
    /\ LET c == [calls[p] EXCEPT !.token = token]
       IN  IF IsAbsent(SingleShare(token))
           THEN Continue(p, hist, AfterCheck(c))
           ELSE IF c.attempts + 1 >= maxAttempts
                THEN Return(p, hist, c,
                         [NoResult EXCEPT !.status = "error",
                             !.reason = "Failed to generate unique token"])
           ELSE Continue(p, hist, [c EXCEPT !.attempts = @ + 1])
    /\ UNCHANGED <<now, shares, receipts, disputes, items, probe, square, disputeItems, bankSettings>>

\* singleUse was not given: read the configured default (false on failure)
ShareReadSetting(p) ==
    /\ calls[p].pc = "c_settings"
    /\ \E enabled \in BOOLEAN :
         Continue(p, hist,
             [calls[p] EXCEPT !.pc = "c_insert",
                              !.singleUse = IF enabled THEN "true" ELSE "false"])
    /\ UNCHANGED <<now, shares, receipts, disputes, items, probe, square, disputeItems, bankSettings>>

\* the store takes the row as it comes: the caller's lookup is the only
\* uniqueness check on token
InsertShare(row) == Append(shares, row)

\* the insert; a store error fails the call
ShareInsert(p) ==
    /\ calls[p].pc = "c_insert"
    /\ \E stored \in BOOLEAN :
         LET c == calls[p]
         IN  IF stored
             THEN /\ shares' = InsertShare(NewShare(c.receipt_id, c.token,
                                   c.expiresAt, c.singleUse = "true"))
                  /\ Return(p, hist, c, Shared("created", Len(shares) + 1, c.token))
             ELSE /\ shares' = shares
                  /\ Return(p, hist, c,
                         [NoResult EXCEPT !.status = "error",
                             !.reason = "Failed to create share token"])
    /\ UNCHANGED <<now, receipts, disputes, items, probe, square, disputeItems, bankSettings>>

(***************************************************************************)
(* SpecCreate: createOrGetShareToken calls racing for one receipt          *)
(***************************************************************************)
InitCreate ==
    /\ now = 1
    /\ shares = <<>>
    /\ receipts = <<NewReceipt("pay1", "webhook")>>
    /\ disputes = <<>>
    /\ items = <<>>
    /\ calls = [p \in Procs |-> Idle]
    /\ hist = NoHist
    /\ probe = NoProbe
    /\ square = NoSquare
    /\ disputeItems = <<>>
    /\ bankSettings = NoSettings

CreateStep(p) ==
    \/ \E r \in 1..Len(receipts), expiresAt \in {NULL, now},
          singleUse \in {"null", "true", "false"} :
         ShareLookup(p, r, expiresAt, singleUse)
    \/ \E token \in Tokens : ShareDrawToken(p, token)
    \/ ShareReadSetting(p)
    \/ ShareInsert(p)

NextCreate == \E p \in Procs : CreateStep(p)

SpecCreate == InitCreate /\ [][NextCreate]_vars

(***************************************************************************)
(* SpecLife: share, read and void calls on one receipt, one after another  *)
(***************************************************************************)
LifeStep(p) ==
    \/ NoneRunning
       /\ \E r \in 1..Len(receipts), expiresAt \in {NULL, now},
             singleUse \in {"null", "true", "false"} :
            ShareLookup(p, r, expiresAt, singleUse)
    \/ \E token \in Tokens : ShareDrawToken(p, token)
    \/ ShareReadSetting(p)
    \/ ShareInsert(p)
    \/ NoneRunning /\ \E token \in Tokens : GetFindShare(p, token)
    \/ GetFindReceipt(p)
    \/ GetResolve(p)
    \/ GetMarkExpired(p)
    \/ GetCountAndReturn(p)
    \/ NoneRunning /\ \E token \in Tokens : VoidShareToken(p, token)

NextLife == (\E p \in Procs : LifeStep(p)) \/ Tick

SpecLife == InitCreate /\ [][NextLife]_vars

(***************************************************************************)
(* SpecResolve: determineVerificationState on arbitrary arguments          *)
(***************************************************************************)
ProbeShares ==
    {Absent} \cup
    [expires_at : {NULL} \cup (1..MaxTime), status : Statuses,
     single_use : BOOLEAN, used_at : {NULL, 1}]

ProbeReceipts ==
    {Absent} \cup
    [source : {"webhook", "simulated"}, refunded : BOOLEAN,
     demo_refunded : BOOLEAN, demo_disputed : BOOLEAN,
     demo_expired_qr : BOOLEAN]

ProbeDisputes ==
    {[i \in DOMAIN sts |-> [id |-> i, status |-> sts[i]]] :
        sts \in SeqsUpTo(DisputeStatuses, MaxDisputes)}

InitResolve ==
    /\ now = 1
    /\ shares = <<>>
    /\ receipts = <<>>
    /\ disputes = <<>>
    /\ items = <<>>
    /\ calls = [p \in Procs |-> Idle]
    /\ hist = NoHist
    /\ square = NoSquare
    /\ disputeItems = <<>>
    /\ bankSettings = NoSettings
    /\ \E share \in ProbeShares, receipt \in ProbeReceipts, ds \in ProbeDisputes :
         probe = [NoProbe EXCEPT !.share = share, !.receipt = receipt,
                                 !.disputes = ds]

\* a call that also stores the lazy transition in the share it was given
ResolveMarkingExpired ==
    /\ probe.state = "none"
    /\ LET state == determineVerificationState(probe.share, probe.receipt,
                                               probe.disputes, now)
       IN  probe' = [probe EXCEPT
                        !.state = state, !.at = now,
                        !.share = IF state = "EXPIRED" /\ ~IsAbsent(@)
                                  THEN [@ EXCEPT !.status = "expired"] ELSE @]
    /\ UNCHANGED <<now, shares, receipts, disputes, items, calls, hist, square, disputeItems, bankSettings>>

\* one call of the resolver at the current time: it reads its arguments and
\* the clock, and assigns nothing
Resolve ==
    /\ probe.state = "none"
    /\ probe' = [probe EXCEPT !.at = now, !.state =
          determineVerificationState(probe.share, probe.receipt,
                                     probe.disputes, now)]
    /\ UNCHANGED <<now, shares, receipts, disputes, items, calls, hist, square, disputeItems, bankSettings>>

\* a second call with the same arguments, now or later
ResolveAgain ==
    /\ probe.state # "none"
    /\ probe.again = "none"
    /\ probe' = [probe EXCEPT !.againAt = now, !.again =
          determineVerificationState(probe.share, probe.receipt,
                                     probe.disputes, now)]
    /\ UNCHANGED <<now, shares, receipts, disputes, items, calls, hist, square, disputeItems, bankSettings>>

NextResolve == Resolve \/ ResolveAgain \/ Tick

SpecResolve == InitResolve /\ [][NextResolve]_vars

(***************************************************************************)
(* POST /api/disputes                                                      *)
(***************************************************************************)
\* Math.round(parseFloat(receiptItem.item_price) * 100): item_price is a
\* decimal with two places, held here as its whole part and its hundredths
itemPriceWholeCents(item_price) == item_price.whole * 100

itemPriceCents(item_price) == item_price.whole * 100 + item_price.frac

\* .from('receipt_items').select('id, item_price, quantity')
\*     .eq('receipt_id', receiptId): the ids of the rows fetched
ReceiptItemIds(receiptId) ==
    {i \in 1..Len(items) : items[i].receipt_id = receiptId}

\* selectedItem.quantity || receiptItem.quantity: an omitted quantity and a
\* quantity of 0 are both falsy
QuantityOf(selectedItem, receiptItem) ==
    IF "quantity" \in DOMAIN selectedItem /\ selectedItem.quantity # 0
    THEN selectedItem.quantity
    ELSE receiptItem.quantity

NoneSelected == [error |-> "none", validSelectedItems |-> <<>>,
                 disputedTotalCents |-> 0]

\* the loop that leaves out a selected item it cannot place, and goes on
RECURSIVE ValidateSelectedSkipping(_, _, _, _)
ValidateSelectedSkipping(selectedItems, receiptItems, i, acc) ==
    IF i > Len(selectedItems) THEN acc
    ELSE
      LET selectedItem == selectedItems[i]
      IN  IF \/ selectedItem.receipt_item_id = NULL
             \/ selectedItem.receipt_item_id \notin receiptItems
          THEN ValidateSelectedSkipping(selectedItems, receiptItems, i + 1, acc)
          ELSE
            LET receiptItem      == items[selectedItem.receipt_item_id]
                quantity         == QuantityOf(selectedItem, receiptItem)
                itemDisputedCents ==
                    itemPriceCents(receiptItem.item_price) * quantity
            IN  IF quantity <= 0
                THEN [acc EXCEPT !.error = "Quantity must be greater than 0"]
                ELSE ValidateSelectedSkipping(selectedItems, receiptItems, i + 1,
                       [acc EXCEPT
                          !.validSelectedItems = Append(@,
                              [receipt_item_id |-> selectedItem.receipt_item_id,
                               quantity |-> quantity,
                               amount_cents |-> itemDisputedCents]),
                          !.disputedTotalCents = @ + itemDisputedCents])

\* the loop over selectedItems: the first item that fails ends the request,
\* the others add their amount to disputedTotalCents
RECURSIVE ValidateSelected(_, _, _, _)
ValidateSelected(selectedItems, receiptItems, i, acc) ==
    IF i > Len(selectedItems) THEN acc
    ELSE
      LET selectedItem == selectedItems[i]
      IN  IF selectedItem.receipt_item_id = NULL
          THEN [acc EXCEPT
                  !.error = "Each selected item must have a receipt_item_id"]
          ELSE IF selectedItem.receipt_item_id \notin receiptItems
          THEN [acc EXCEPT !.error = "Receipt item not found in receipt"]
          ELSE
            LET receiptItem      == items[selectedItem.receipt_item_id]
                quantity         == QuantityOf(selectedItem, receiptItem)
                itemDisputedCents ==
                    itemPriceCents(receiptItem.item_price) * quantity
            IN  IF quantity <= 0
                THEN [acc EXCEPT !.error = "Quantity must be greater than 0"]
                ELSE ValidateSelected(selectedItems, receiptItems, i + 1,
                       [acc EXCEPT
                          !.validSelectedItems = Append(@,
                              [receipt_item_id |-> selectedItem.receipt_item_id,
                               quantity |-> quantity,
                               amount_cents |-> itemDisputedCents]),
                          !.disputedTotalCents = @ + itemDisputedCents])

\* reply.code(code).send({ error, message })
DisputeRefused(code, error, message) ==
    [NoResult EXCEPT !.code = code, !.reason = error, !.message = message]

\* reply.code(201).send({ success: true, dispute_id, status })
DisputeCreated(disputeId, status) ==
    [NoResult EXCEPT !.code = 201, !.valid = TRUE, !.dispute_id = disputeId,
                     !.status = status]

\* validSelectedItems.map(item => ({ dispute_id: disputeId, ... }))
disputeItemsData(disputeId, validSelectedItems) ==
    [i \in 1..Len(validSelectedItems) |->
        [dispute_id      |-> disputeId,
         receipt_item_id |-> validSelectedItems[i].receipt_item_id,
         quantity        |-> validSelectedItems[i].quantity,
         amount_cents    |-> validSelectedItems[i].amount_cents]]

\* the request arrives: its body is checked and the receipt looked up
DisputeFindReceipt(p, body) ==
    /\ CanStart(p)
    /\ Len(disputes) < MaxOpen
    /\ LET receiptId     == body.receipt_id
           selectedItems == body.selected_items
           reasonCode    == body.reason_code
           c == [Idle EXCEPT !.op = "dispute", !.receipt_id = receiptId,
                             !.selected_items = selectedItems]
       IN  IF receiptId = NULL
           THEN Return(p, Started(hist), c,
                    DisputeRefused(400, "Validation error",
                                   "receipt_id is required"))
           ELSE IF selectedItems = <<>>
           THEN Return(p, Started(hist), c,
                    DisputeRefused(400, "Validation error",
                                   "selected_items is required"))
           ELSE IF ~reasonCode
           THEN Return(p, Started(hist), c,
                    DisputeRefused(400, "Validation error",
                                   "reason_code is required"))
           ELSE IF IsAbsent(SingleReceipt(receiptId))
           THEN Return(p, Started(hist), c,
                    DisputeRefused(404, "Receipt not found",
                                   "No receipt found"))
           ELSE Continue(p, Started(hist), [c EXCEPT !.pc = "d_items"])
    /\ UNCHANGED <<now, shares, receipts, disputes, items, probe, square,
                   disputeItems, bankSettings>>

\* the receipt's items are fetched and the selected items checked against
\* them; nothing has been written when a selected item is refused
DisputeValidate(p) ==
    /\ calls[p].pc = "d_items"
    /\ \E fetched \in BOOLEAN :
         LET c      == calls[p]
             result == ValidateSelected(c.selected_items,
                           ReceiptItemIds(c.receipt_id), 1, NoneSelected)
         IN  IF ~fetched
             THEN Return(p, hist, c,
                      DisputeRefused(500, "Database error",
                                     "Failed to fetch receipt items"))
             ELSE IF result.error # "none"
             THEN Return(p, hist, c,
                      DisputeRefused(400, "Validation error", result.error))
             ELSE Continue(p, hist,
                      [c EXCEPT !.pc = "d_insert",
                                !.validSelectedItems = result.validSelectedItems,
                                !.disputedTotalCents = result.disputedTotalCents])
    /\ UNCHANGED <<now, shares, receipts, disputes, items, probe, square,
                   disputeItems, bankSettings>>

\* the Dispute is inserted with its total; an error that names the missing
\* column leads to the second insert, any other error ends the request
DisputeInsert(p) ==
    /\ calls[p].pc = "d_insert"
    /\ \E outcome \in {"stored", "column", "error"} :
         LET c == calls[p]
         IN  CASE outcome = "stored" ->
                    /\ disputes' = Append(disputes,
                           [receipt_id |-> c.receipt_id, status |-> "submitted",
                            total_amount_cents |-> c.disputedTotalCents])
                    /\ Continue(p, hist,
                           [c EXCEPT !.pc = "d_dispute_items",
                                     !.dispute_id = Len(disputes) + 1])
               [] outcome = "column" ->
                    /\ disputes' = disputes
                    /\ Continue(p, hist, [c EXCEPT !.pc = "d_retry"])
               [] outcome = "error" ->
                    /\ disputes' = disputes
                    /\ Return(p, hist, c,
                           DisputeRefused(500, "Database error",
                                          "Failed to create dispute"))
    /\ UNCHANGED <<now, shares, receipts, items, probe, square, disputeItems, bankSettings>>

\* the second insert that sends the total again
DisputeInsertRetryWithTotal(p) ==
    /\ calls[p].pc = "d_retry"
    /\ \E stored \in BOOLEAN :
         LET c == calls[p]
         IN  IF stored
             THEN /\ disputes' = Append(disputes,
                          [receipt_id |-> c.receipt_id, status |-> "submitted",
                           total_amount_cents |-> c.disputedTotalCents])
                  /\ Continue(p, hist,
                          [c EXCEPT !.pc = "d_dispute_items",
                                    !.dispute_id = Len(disputes) + 1])
             ELSE /\ disputes' = disputes
                  /\ Return(p, hist, c,
                          DisputeRefused(500, "Database error",
                                         "Failed to create dispute"))
    /\ UNCHANGED <<now, shares, receipts, items, probe, square, disputeItems, bankSettings>>

\* the second insert, without total_amount_cents
DisputeInsertRetry(p) ==
    /\ calls[p].pc = "d_retry"
    /\ \E stored \in BOOLEAN :
         LET c == calls[p]
         IN  IF stored
             THEN /\ disputes' = Append(disputes,
                          [receipt_id |-> c.receipt_id, status |-> "submitted",
                           total_amount_cents |-> NULL])
                  /\ Continue(p, hist,
                          [c EXCEPT !.pc = "d_dispute_items",
                                    !.dispute_id = Len(disputes) + 1])
             ELSE /\ disputes' = disputes
                  /\ Return(p, hist, c,
                          DisputeRefused(500, "Database error",
                                         "Failed to create dispute"))
    /\ UNCHANGED <<now, shares, receipts, items, probe, square, disputeItems, bankSettings>>

\* the DisputeItems insert whose failure retracts the Dispute and fails the
\* request
DisputeInsertItemsOrRetract(p) ==
    /\ calls[p].pc = "d_dispute_items"
    /\ \E stored \in BOOLEAN :
         LET c == calls[p]
         IN  IF stored
             THEN /\ disputeItems' = disputeItems \o
                         disputeItemsData(c.dispute_id, c.validSelectedItems)
                  /\ disputes' = disputes
                  /\ Return(p, hist, c,
                         DisputeCreated(c.dispute_id,
                                        disputes[c.dispute_id].status))
             ELSE /\ disputeItems' = disputeItems
                  /\ disputes' = SubSeq(disputes, 1, c.dispute_id - 1)
                  /\ Return(p, hist, c,
                         DisputeRefused(500, "Database error",
                                        "Failed to create dispute items"))
    /\ UNCHANGED <<now, shares, receipts, items, probe, square, bankSettings>>

\* the DisputeItems are inserted in one statement; its failure is logged
\* and the request answers 201 all the same
DisputeInsertItems(p) ==
    /\ calls[p].pc = "d_dispute_items"
    /\ \E stored \in BOOLEAN :
         LET c == calls[p]
         IN  /\ disputeItems' =
                    IF stored
                    THEN disputeItems \o
                         disputeItemsData(c.dispute_id, c.validSelectedItems)
                    ELSE disputeItems
             /\ Return(p, hist, c,
                    DisputeCreated(c.dispute_id, disputes[c.dispute_id].status))
    /\ UNCHANGED <<now, shares, receipts, disputes, items, probe, square, bankSettings>>

(***************************************************************************)
(* SpecDispute: create-dispute requests on a receipt of two items          *)
(***************************************************************************)
\* the rows ingestion has stored: receipt 1 with an item of 10.00 bought
\* twice and an item of 5.50 bought once, receipt 2 with one item of 3.99
ReceiptItemsAtStart ==
    <<[receipt_id |-> 1, item_price |-> [whole |-> 10, frac |-> 0],
       quantity |-> 2],
      [receipt_id |-> 1, item_price |-> [whole |-> 5, frac |-> 50],
       quantity |-> 1],
      [receipt_id |-> 2, item_price |-> [whole |-> 3, frac |-> 99],
       quantity |-> 1]>>

\* body.receipt_id: missing, a stored receipt, or an id no receipt has
RequestReceiptIds == {NULL} \cup (1..(Len(receipts) + 1))

\* selectedItem.receipt_item_id: missing, or the id of a stored item
RequestItemIds == {NULL} \cup (1..Len(items))

\* a selected item, with or without a quantity
SelectedItems ==
    [receipt_item_id : RequestItemIds]
        \cup [receipt_item_id : RequestItemIds, quantity : (-1)..MaxQuantity]

\* body.selected_items: no longer than the receipt with the most items
SelectedLists ==
    {<<>>} \cup {<<a>> : a \in SelectedItems}
           \cup {<<a, b>> : a \in SelectedItems, b \in SelectedItems}

\* request.body: any selection for the receipt of two items; and, for every
\* receipt id and with or without a reason code, a selection of one item or
\* of none (the handler answers a body that lacks a part, or names a receipt
\* that does not exist, before it reads what is selected)
RequestBodies ==
    [receipt_id : {1}, selected_items : SelectedLists, reason_code : {TRUE}]
        \cup [receipt_id : RequestReceiptIds,
              selected_items : {<<>>, <<[receipt_item_id |-> 1]>>,
                                <<[receipt_item_id |-> 3]>>},
              reason_code : BOOLEAN]

InitDispute ==
    /\ now = 1
    /\ receipts = <<NewReceipt("pay1", "webhook"), NewReceipt("pay2", "webhook")>>
    /\ shares = <<>>
    /\ disputes = <<>>
    /\ items = ReceiptItemsAtStart
    /\ calls = [p \in Procs |-> Idle]
    /\ hist = NoHist
    /\ probe = NoProbe
    /\ square = NoSquare
    /\ disputeItems = <<>>
    /\ bankSettings = NoSettings

DisputeStep(p) ==
    \/ NoneRunning
       /\ \E body \in RequestBodies : DisputeFindReceipt(p, body)
    \/ DisputeValidate(p)
    \/ DisputeInsert(p)
    \/ DisputeInsertRetry(p)
    \/ DisputeInsertItems(p)

NextDispute == \E p \in Procs : DisputeStep(p)

SpecDispute == InitDispute /\ [][NextDispute]_vars

(***************************************************************************)
(* GET /api/receipts and GET /api/receipts/:id: the confidence gate        *)
(***************************************************************************)
\* receipt.confidence_label: HIGH, MEDIUM, LOW, or null ("none")
ConfidenceLabels == {"HIGH", "MEDIUM", "LOW", "none"}

\* receipt.confidence_score: null, or a score from 0 to 100
ConfidenceScores == {NULL, 0, 10, 80, 85, 100}

\* the configured confidence threshold, from 0 to 100
Thresholds == {0, 85, 100}

\* hasConfidenceScore && receipt.confidence_score <= threshold
isBelowOrAtThreshold(receipt, threshold) ==
    LET hasConfidenceScore == receipt.confidence_score # NULL
    IN  hasConfidenceScore /\ receipt.confidence_score <= threshold

\* hasConfidenceScore && receipt.confidence_score < threshold
isBelowThreshold(receipt, threshold) ==
    LET hasConfidenceScore == receipt.confidence_score # NULL
    IN  hasConfidenceScore /\ receipt.confidence_score < threshold

\* isReceiptBelowThreshold(receipt, threshold) of lib/confidence-threshold.js:
\* the score is present and strictly less than the threshold
isReceiptBelowThreshold(receipt, threshold) ==
    receipt.confidence_score # NULL /\ receipt.confidence_score < threshold

\* .select('*, receipt_items (*)'): the items nested in their receipt
ReceiptItemsOf(receiptId) ==
    SelectSeq(items, LAMBDA row : row.receipt_id = receiptId)

\* the disputes of a receipt with one of the given statuses
HasDisputeIn(receiptId, statuses) ==
    \E d \in 1..Len(disputes) :
        disputes[d].receipt_id = receiptId /\ disputes[d].status \in statuses

\* one entry of receiptsWithThreshold
ListEntry(id, threshold) ==
    LET receipt == receipts[id]
        below   == IF receipt.confidence_label = "HIGH" THEN FALSE
                   ELSE isBelowThreshold(receipt, threshold)
    IN  [id |-> id,
         below_threshold |-> below,
         has_active_dispute |-> HasDisputeIn(id, {"submitted", "in_review"}),
         has_resolved_dispute |-> HasDisputeIn(id, {"resolved"}),
         is_refunded |-> receipt.refunded,
         receipt_items |-> IF below THEN <<>> ELSE ReceiptItemsOf(id)]

NoResponse == [code |-> NULL]

\* GET /api/receipts: the kill switch, the receipts with their items, the
\* threshold applied to each receipt
ListReceipts ==
    /\ probe.list = NoResponse
    /\ \E receiptsEnabled \in BOOLEAN, fetched \in BOOLEAN :
         probe' = [probe EXCEPT !.list =
             IF ~receiptsEnabled
             THEN [code |-> 503, error |-> "Service unavailable"]
             ELSE IF ~fetched
             THEN [code |-> 500, error |-> "Database error"]
             ELSE [code |-> 200,
                   receipts |-> [id \in 1..Len(receipts) |->
                                    ListEntry(id, probe.threshold)],
                   confidence_threshold |-> probe.threshold]]
    /\ UNCHANGED <<now, shares, receipts, disputes, items, calls, hist, square,
                   disputeItems, bankSettings>>

\* GET /api/receipts/:id: the kill switch, the receipt with its items, the
\* threshold
GetReceipt(id) ==
    /\ probe.detail = NoResponse
    /\ \E receiptsEnabled \in BOOLEAN, fetched \in BOOLEAN :
         probe' = [probe EXCEPT !.detail =
             IF ~receiptsEnabled
             THEN [code |-> 503, error |-> "Service unavailable"]
             ELSE IF id \notin 1..Len(receipts)
             THEN [code |-> 404, error |-> "Receipt not found"]
             ELSE IF ~fetched
             THEN [code |-> 500, error |-> "Database error"]
             ELSE
               LET receipt == receipts[id]
                   isBelow == IF receipt.confidence_label # "HIGH"
                              THEN isReceiptBelowThreshold(receipt,
                                                           probe.threshold)
                              ELSE FALSE
               IN  [code |-> 200, id |-> id,
                    below_threshold |-> isBelow,
                    receipt_items |-> IF isBelow THEN <<>>
                                      ELSE ReceiptItemsOf(id)]]
    /\ UNCHANGED <<now, shares, receipts, disputes, items, calls, hist, square,
                   disputeItems, bankSettings>>

(***************************************************************************)
(* SpecGate: one scored receipt, read through both endpoints               *)
(***************************************************************************)
\* one receipt as the scoring engine left it, with or without an item, and
\* the threshold the administrator configured
InitGate ==
    /\ now = 1
    /\ \E label \in ConfidenceLabels, score \in ConfidenceScores :
         receipts = <<[NewReceipt("pay1", "webhook") EXCEPT
                          !.confidence_label = label,
                          !.confidence_score = score]>>
    /\ shares = <<>>
    /\ disputes = <<>>
    /\ items \in {<<>>, <<[receipt_id |-> 1, line |-> 1]>>}
    /\ calls = [p \in Procs |-> Idle]
    /\ hist = NoHist
    /\ \E threshold \in Thresholds :
         probe = [threshold |-> threshold, list |-> NoResponse,
                  detail |-> NoResponse]
    /\ square = NoSquare
    /\ disputeItems = <<>>
    /\ bankSettings = NoSettings

NextGate ==
    \/ ListReceipts
    \/ \E id \in 1..(Len(receipts) + 1) : GetReceipt(id)

SpecGate == InitGate /\ [][NextGate]_vars

(***************************************************************************)
(* /api/bank-admin: confidence threshold, retention policy, kill switch    *)
(***************************************************************************)
\* request.body.threshold, when it is a number
ThresholdsSent == {-1, 0, 1, 85, 100, 101}

\* request.body.days, when it is a number
DaysSent == {0, 1, 90, 3650, 3651}

\* a body with the named field, or without it
Bodies(field, values) == {<<>>} \cup {[f \in {field} |-> v] : v \in values}

\* x || d for a number x: 0 is falsy
OrElse(x, d) == IF x = 0 THEN d ELSE x

Unauthorized == [code |-> 401, error |-> "Unauthorized"]

ValidationError == [code |-> 400, error |-> "Validation error"]

DatabaseError == [code |-> 500, error |-> "Database error"]

\* the request just answered: its method and key, whether its select found
\* the store answering, what a PUT sent, and the reply
Answered(op, key, readOk, sent, response) ==
    [op |-> op, key |-> key, readOk |-> readOk, sent |-> sent,
     response |-> response]

\* .from('bank_settings').upsert({ key, value }, { onConflict: 'key' })
Upsert(key, value) == [bankSettings EXCEPT ![key] = [value |-> value]]

\* GET /api/bank-admin/confidence-threshold
GetConfidenceThreshold ==
    /\ \E authorized \in BOOLEAN, readOk \in BOOLEAN :
         LET setting == bankSettings["confidence_threshold"]
         IN  probe' = Answered("get", "confidence_threshold", readOk, <<>>,
                 IF ~authorized THEN Unauthorized
                 ELSE IF ~readOk \/ IsAbsent(setting)
                 THEN [code |-> 200, threshold |-> 85]
                 ELSE [code |-> 200,
                       threshold |-> OrElse(setting.value.threshold, 85)])
    /\ UNCHANGED <<now, shares, receipts, disputes, items, calls, hist, square,
                   disputeItems, bankSettings>>

\* PUT /api/bank-admin/confidence-threshold
PutConfidenceThreshold(body) ==
    \E authorized \in BOOLEAN, stored \in BOOLEAN :
      LET answer(response) ==
              Answered("put", "confidence_threshold", TRUE, body, response)
      IN  /\ IF ~authorized
             THEN probe' = answer(Unauthorized) /\ bankSettings' = bankSettings
             ELSE IF \/ "threshold" \notin DOMAIN body
                     \/ body.threshold < 0
                     \/ body.threshold > 100
             THEN probe' = answer(ValidationError)
                  /\ bankSettings' = bankSettings
             ELSE IF ~stored
             THEN probe' = answer(DatabaseError) /\ bankSettings' = bankSettings
             ELSE /\ bankSettings' = Upsert("confidence_threshold",
                                            [threshold |-> body.threshold])
                  /\ probe' = answer([code |-> 200,
                         threshold |-> OrElse(body.threshold, body.threshold)])
          /\ UNCHANGED <<now, shares, receipts, disputes, items, calls, hist,
                         square, disputeItems>>

\* GET /api/bank-admin/retention-policy
GetRetentionPolicy ==
    /\ \E authorized \in BOOLEAN, readOk \in BOOLEAN :
         LET setting == bankSettings["receipt_retention_days"]
         IN  probe' = Answered("get", "receipt_retention_days", readOk, <<>>,
                 IF ~authorized THEN Unauthorized
                 ELSE IF ~readOk \/ IsAbsent(setting)
                 THEN [code |-> 200, days |-> 90]
                 ELSE [code |-> 200, days |-> OrElse(setting.value.days, 90)])
    /\ UNCHANGED <<now, shares, receipts, disputes, items, calls, hist, square,
                   disputeItems, bankSettings>>

\* PUT /api/bank-admin/retention-policy; the value it reads first goes to
\* the event log only
PutRetentionPolicy(body) ==
    \E authorized \in BOOLEAN, stored \in BOOLEAN :
      LET answer(response) ==
              Answered("put", "receipt_retention_days", TRUE, body, response)
      IN  /\ IF ~authorized
             THEN probe' = answer(Unauthorized) /\ bankSettings' = bankSettings
             ELSE IF \/ "days" \notin DOMAIN body
                     \/ body.days < 1
                     \/ body.days > 3650
             THEN probe' = answer(ValidationError)
                  /\ bankSettings' = bankSettings
             ELSE IF ~stored
             THEN probe' = answer(DatabaseError) /\ bankSettings' = bankSettings
             ELSE /\ bankSettings' = Upsert("receipt_retention_days",
                                            [days |-> body.days])
                  /\ probe' = answer([code |-> 200,
                                      days |-> OrElse(body.days, 90)])
          /\ UNCHANGED <<now, shares, receipts, disputes, items, calls, hist,
                         square, disputeItems>>

\* GET /api/bank-admin/kill-switch; without a row the answer is the
\* environment's KILL_SWITCH_ENABLED
GetKillSwitch ==
    /\ \E authorized \in BOOLEAN, readOk \in BOOLEAN, envKillSwitch \in BOOLEAN :
         LET setting == bankSettings["kill_switch"]
         IN  probe' = Answered("get", "kill_switch", readOk, <<>>,
                 IF ~authorized THEN Unauthorized
                 ELSE IF ~readOk \/ IsAbsent(setting)
                 THEN [code |-> 200, enabled |-> envKillSwitch]
                 ELSE [code |-> 200, enabled |-> setting.value.enabled \/ FALSE])
    /\ UNCHANGED <<now, shares, receipts, disputes, items, calls, hist, square,
                   disputeItems, bankSettings>>

\* PUT /api/bank-admin/kill-switch
PutKillSwitch(body) ==
    \E authorized \in BOOLEAN, stored \in BOOLEAN :
      LET answer(response) == Answered("put", "kill_switch", TRUE, body, response)
      IN  /\ IF ~authorized
             THEN probe' = answer(Unauthorized) /\ bankSettings' = bankSettings
             ELSE IF "enabled" \notin DOMAIN body
             THEN probe' = answer(ValidationError)
                  /\ bankSettings' = bankSettings
             ELSE IF ~stored
             THEN probe' = answer(DatabaseError) /\ bankSettings' = bankSettings
             ELSE /\ bankSettings' = Upsert("kill_switch",
                                            [enabled |-> body.enabled])
                  /\ probe' = answer([code |-> 200,
                                      enabled |-> body.enabled \/ FALSE])
          /\ UNCHANGED <<now, shares, receipts, disputes, items, calls, hist,
                         square, disputeItems>>

\* no setting written and no request answered yet
InitSettings ==
    /\ now = 1
    /\ shares = <<>>
    /\ receipts = <<>>
    /\ disputes = <<>>
    /\ items = <<>>
    /\ calls = [p \in Procs |-> Idle]
    /\ hist = NoHist
    /\ probe = Answered("none", "none", TRUE, <<>>, [code |-> NULL])
    /\ square = NoSquare
    /\ disputeItems = <<>>
    /\ bankSettings = NoSettings

NextSettings ==
    \/ GetConfidenceThreshold
    \/ \E body \in Bodies("threshold", ThresholdsSent) : PutConfidenceThreshold(body)
    \/ GetRetentionPolicy
    \/ \E body \in Bodies("days", DaysSent) : PutRetentionPolicy(body)
    \/ GetKillSwitch
    \/ \E body \in Bodies("enabled", BOOLEAN) : PutKillSwitch(body)

SpecSettings == InitSettings /\ [][NextSettings]_vars

(***************************************************************************)
(* Properties of determineVerificationState                                *)
(***************************************************************************)
RECURSIVE FirstMatch(_, _)
FirstMatch(rules, i) ==
    IF i > Len(rules) THEN "VALID"
    ELSE IF rules[i][1] THEN rules[i][2]
    ELSE FirstMatch(rules, i + 1)

\* the rules in the order the specification gives them
ClaimedOrder(share, receipt, ds, t) ==
    LET present   == ~IsAbsent(receipt)
        simulated == present /\ receipt.source = "simulated"
    IN  FirstMatch(
          << <<share.expires_at # NULL /\ share.expires_at < t, "EXPIRED">>,
             <<share.status = "voided", "INVALID">>,
             <<share.single_use /\ share.used_at # NULL, "INVALID">>,
             <<~present, "INVALID">>,
             <<simulated /\ receipt.demo_expired_qr, "EXPIRED">>,
             <<simulated /\ receipt.demo_refunded, "REFUNDED">>,
             <<simulated /\ receipt.demo_disputed, "DISPUTED">>,
             <<present /\ receipt.refunded, "REFUNDED">>,
             <<\E i \in DOMAIN ds : ds[i].status \in {"submitted", "in_review"},
               "DISPUTED">> >>, 1)

(***************************************************************************)
(* C1  For every present share record, every receipt (present or absent)   *)
(* and every dispute list, determineVerificationState returns the outcome  *)
(* of the first rule that matches, in the order: expired, voided, consumed *)
(* single-use, receipt absent, demo expired / refunded / disputed of a     *)
(* simulated receipt, refunded, an active dispute, otherwise VALID.  A     *)
(* share past expiresAt that is also voided resolves EXPIRED.              *)
(***************************************************************************)
C1_FirstMatchingRule ==
    (probe.state # "none" /\ ~IsAbsent(probe.share)) =>
        /\ probe.state = ClaimedOrder(probe.share, probe.receipt,
                                      probe.disputes, probe.at)
        /\ (probe.share.status = "voided" /\ probe.share.expires_at # NULL
            /\ probe.share.expires_at < probe.at) => probe.state = "EXPIRED"

\* C1 witness: a voided share past its expiry, of a refunded receipt, has
\* been resolved EXPIRED
C1_ExpiredAndVoided ==
    /\ probe.state = "EXPIRED"
    /\ ~IsAbsent(probe.share)
    /\ probe.share.status = "voided"
    /\ probe.share.expires_at # NULL /\ probe.share.expires_at < probe.at
    /\ ~IsAbsent(probe.receipt) /\ probe.receipt.refunded

(***************************************************************************)
(* C11  determineVerificationState called with an absent share (null or    *)
(* undefined) returns INVALID as an ordinary result; it does not fail with *)
(* an error.                                                               *)
(***************************************************************************)
C11_AbsentShareInvalid ==
    (probe.state # "none" /\ IsAbsent(probe.share)) => probe.state = "INVALID"

\* the arguments are those the call was given
ArgumentsKept ==
    /\ probe'.share = probe.share
    /\ probe'.receipt = probe.receipt
    /\ probe'.disputes = probe.disputes

C2_NeverTrustedAfterVoid ==
    (hist.last.op \in {"get", "verify"} /\ hist.last.afterVoid) =>
        /\ hist.last.result.state # "VALID"
        /\ ~hist.last.result.valid

\* what a call on a token that was never stored returns
NotFound(op) ==
    IF op = "get" THEN Invalid("Token not found")
    ELSE Refusal("Token not found", "none")

SameApartFromState(a, b) == [a EXCEPT !.state = "any"] = [b EXCEPT !.state = "any"]

(***************************************************************************)
(* C13  A caller cannot tell a token that never existed from a token that  *)
(* was voided: the result of getReceiptByToken and of verifyShareToken     *)
(* (reason and status included) for a voided token is the result for a     *)
(* token that was never stored, apart from the INVALID classification.     *)
(***************************************************************************)
C13_VoidedLooksUnknown ==
    (/\ hist.last.op \in {"get", "verify"}
     /\ ~hist.last.found \/ hist.last.status = "voided")
        => SameApartFromState(hist.last.result, NotFound(hist.last.op))

\* a voidShareToken call that reports success leaves every row of its token
\* voided and changes nothing else; one that reports failure wrote nothing
VoidedWhateverStatus ==
    hist'.last.op = "void" =>
        IF hist'.last.result.valid
        THEN \A i \in 1..Len(shares) :
                shares'[i] = IF shares[i].token = hist'.last.token
                             THEN [shares[i] EXCEPT !.status = "voided"]
                             ELSE shares[i]
        ELSE shares' = shares

(***************************************************************************)
(* C15  voidShareToken sets status = voided whatever the token's current   *)
(* status (active, verified, used, expired or voided) and is idempotent:   *)
(* a second call leaves the stored state of the first, and succeeds like   *)
(* the first.                                                              *)
(***************************************************************************)
C15_VoidSetsVoided == [][VoidedWhateverStatus]_vars

\* C15 witness: a second voidShareToken on a token already voided has
\* reported success, and the row is voided
C15_VoidedTwice ==
    /\ hist.last.op = "void"
    /\ hist.last.afterVoid
    /\ hist.last.result.valid
    /\ hist.last.token = "tokA"
    /\ shares[1].status = "voided"

\* what each step does to status, verified_at and verified_by of each row
VerifyTransitions ==
    \A i \in 1..Len(shares) :
        LET old  == shares[i]
            new  == shares'[i]
            l    == hist'.last
            mine == l.op = "verify" /\ l.result.valid /\ old.token = l.token
        IN  /\ mine =>
                  /\ new.status = IF l.markAsUsed THEN "used"
                                  ELSE IF old.status = "active" THEN "verified"
                                  ELSE old.status
                  /\ (old.status = "active" \/ l.markAsUsed) =>
                        /\ new.verified_at = now
                        /\ l.merchantId # NULL => new.verified_by = l.merchantId
            /\ (new.status = "used" /\ old.status # "used") =>
                  mine /\ l.markAsUsed
            /\ (new.status = "verified" /\ old.status # "verified") =>
                  mine /\ old.status = "active"
            /\ ~mine => /\ new.verified_at = old.verified_at
                        /\ new.verified_by = old.verified_by

C17_RefusalCarriesState ==
    (hist.last.op = "verify" /\ ~hist.last.result.valid) =>
        /\ hist.last.result.reason # "none"
        /\ hist.last.result.state \in {"EXPIRED", "REFUNDED", "DISPUTED", "INVALID"}

(***************************************************************************)
(* Single-use tokens                                                       *)
(***************************************************************************)
\* the call that has just returned is a getReceiptByToken on a single-use
\* token that began after an earlier one had returned VALID for it
LaterReadOfUsedToken ==
    /\ hist.last.op = "get"
    /\ hist.last.found
    /\ hist.last.single_use
    /\ hist.last.afterUse

\* a VALID read of a single-use token has left used_at set
FirstValidReadSetsUsedAt ==
    \A i \in 1..Len(shares) :
        (shares[i].single_use /\ hist.validReads[shares[i].token] > 0)
            => shares[i].used_at # NULL

(***************************************************************************)
(* C3  (as stated)  For a single-use token, in a sequential run, the first *)
(* getReceiptByToken call that yields VALID sets usedAt, and every later   *)
(* getReceiptByToken call on that token yields INVALID.                    *)
(***************************************************************************)
C3_LaterReadsInvalid ==
    /\ FirstValidReadSetsUsedAt
    /\ LaterReadOfUsedToken => hist.last.result.state = "INVALID"

(***************************************************************************)
(* C3  (as amended)  For a single-use token, in a sequential run, the      *)
(* first getReceiptByToken call that yields VALID sets usedAt, and every   *)
(* later getReceiptByToken call on that token yields INVALID, or EXPIRED   *)
(* once the token's expiresAt has passed (the expiry rule comes first);    *)
(* it never yields VALID again.                                            *)
(***************************************************************************)
C3_LaterReadsInvalidOrExpired ==
    /\ FirstValidReadSetsUsedAt
    /\ LaterReadOfUsedToken =>
          \/ hist.last.result.state = "INVALID"
          \/ /\ hist.last.result.state = "EXPIRED"
             /\ hist.last.expires_at # NULL
             /\ hist.last.expires_at < now

\* C3 witness: the second read of a used single-use token returns INVALID
C3_UsedThenReadAgain ==
    /\ LaterReadOfUsedToken
    /\ hist.last.result.state = "INVALID"
    /\ hist.last.result.view_count = 2

(***************************************************************************)
(* C4  Across any interleaving of concurrent getReceiptByToken calls on    *)
(* one single-use token, at most one call returns VALID.                   *)
(***************************************************************************)
C4_AtMostOneValidRead == \A t \in Tokens : hist.validReads[t] <= 1

(***************************************************************************)
(* Properties of ingestion                                                 *)
(***************************************************************************)
OneReceiptPerPayment ==
    \A id \in PaymentIds : Cardinality(ReceiptsByPayment(id)) <= 1

\* the call that has just returned is a webhook that reports processed: true
WebhookProcessed == hist.last.op = "webhook" /\ hist.last.result.processed

(***************************************************************************)
(* C5  Handling a payment.created event again for a payment id leaves      *)
(* exactly one Receipt row for that payment id, and the redelivery returns *)
(* the id of that row, the id the first handling returned.                 *)
(***************************************************************************)
C5_RedeliveryReturnsSameReceipt ==
    /\ OneReceiptPerPayment
    /\ WebhookProcessed =>
          ReceiptsByPayment(hist.last.payment_id) = {hist.last.result.receipt_id}

\* C5 witness: a delivery that arrived when the receipt was already stored
\* has hit the uniqueness violation and returned processed
C5_SecondDelivery ==
    /\ WebhookProcessed
    /\ ~hist.last.fresh
    /\ hist.last.duplicate
    /\ Len(receipts) = 1
    /\ hist.returned = 2

\* the call that has just returned arrived before the receipt was stored and
\* then hit the uniqueness violation: it lost the insert race
LostInsertRace ==
    /\ hist.last.op = "webhook"
    /\ hist.last.fresh
    /\ hist.last.duplicate

ItemsOwned(r) == Cardinality({i \in 1..Len(items) : items[i].receipt_id = r})

OrderLines(paymentId) ==
    IF square[paymentId] = NULL THEN 0 ELSE square[paymentId]

(***************************************************************************)
(* C7  After any number of redeliveries of a payment.created event whose   *)
(* order has n line items the receipt owns exactly n ReceiptItems: a       *)
(* redelivery does not insert the line items again, so a receipt never     *)
(* owns more items than its order has lines.                               *)
(***************************************************************************)
C7_ItemsNotInsertedAgain ==
    \A r \in 1..Len(receipts) :
        ItemsOwned(r) <= OrderLines(receipts[r].payment_id)

\* this step is the arrival of a createOrGetShareToken call for receipt r
\* that goes on to create a token
ArrivesAndCreates(r) ==
    \E p \in Procs : /\ Free(p)
                     /\ calls'[p].op = "share"
                     /\ calls'[p].receipt_id = r

\* this step is the arrival and return of a call for receipt r
ArrivesAndReturns(r) ==
    /\ hist'.started = hist.started + 1
    /\ hist'.last.op = "share"
    /\ hist'.last.receipt_id = r

\* a call that finds a share without expiry for its receipt returns that
\* share's token in the same step and leaves the table as it is
ReusedUntouched ==
    \A r \in 1..Len(receipts) :
        ExistingShare(r) # NULL =>
            /\ ~ArrivesAndCreates(r)
            /\ ArrivesAndReturns(r) =>
                  /\ hist'.last.result.status = "existing"
                  /\ hist'.last.result.share_id = ExistingShare(r)
                  /\ hist'.last.result.token = shares[ExistingShare(r)].token
                  /\ shares' = shares

C8_TokensUnique ==
    \A i, j \in 1..Len(shares) : shares[i].token = shares[j].token => i = j

\* no step lowers a stored counter
CountersDoNotDecrease ==
    \A i \in 1..Len(shares) :
        /\ shares'[i].view_count >= shares[i].view_count
        /\ shares'[i].verification_attempts >= shares[i].verification_attempts

(***************************************************************************)
(* C9  For a fixed token the stored viewCount and verificationAttempts     *)
(* never decrease from one state to the next, under any interleaving of    *)
(* concurrent getReceiptByToken calls.                                     *)
(***************************************************************************)
C9_CountersNeverDecrease == [][CountersDoNotDecrease]_vars

\* this step is the return of a getReceiptByToken call that found the share
\* and its receipt
GetReturnsCounted ==
    hist'.last.op = "get" /\ hist'.last.result.view_count # NULL

\* such a return adds 1 to both counters of its token and reports the stored
\* view count; no other step changes a view count
CountedOncePerRead ==
    \A i \in 1..Len(shares) :
        IF GetReturnsCounted /\ shares[i].token = hist'.last.token
        THEN /\ hist'.last.result.state \in States
             /\ shares'[i].view_count = shares[i].view_count + 1
             /\ shares'[i].verification_attempts
                    = shares[i].verification_attempts + 1
             /\ hist'.last.result.view_count = shares'[i].view_count
        ELSE shares'[i].view_count = shares[i].view_count

(***************************************************************************)
(* C10  Every getReceiptByToken call that finds the token and its receipt  *)
(* adds exactly 1 to the stored viewCount and verificationAttempts,        *)
(* whatever state it resolved; viewCount changes in no other step, so      *)
(* after n calls made one after the other it is n, and the n-th call       *)
(* reports n.  (Calls made one after the other: SpecSeq.)                  *)
(***************************************************************************)
C10_EveryReadCounted == [][CountedOncePerRead]_vars

\* C10 witness: the second read, made after the token was voided, resolved
\* INVALID and was counted all the same
C10_InvalidReadCounted ==
    /\ hist.last.op = "get"
    /\ hist.last.result.state = "INVALID"
    /\ hist.last.afterVoid
    /\ hist.last.result.view_count = 2
    /\ shares[1].view_count = 2

(***************************************************************************)
(* Properties of POST /api/disputes                                        *)
(***************************************************************************)
\* the unit price in cents, rounded to the nearest cent
RoundedCents(item_price) == 100 * item_price.whole + item_price.frac

\* the rows of dispute_items that belong to dispute d
ItemsOfDispute(d) ==
    {k \in 1..Len(disputeItems) : disputeItems[k].dispute_id = d}

RECURSIVE SumOfAmounts(_, _)
SumOfAmounts(d, k) ==
    IF k > Len(disputeItems) THEN 0
    ELSE (IF disputeItems[k].dispute_id = d
          THEN disputeItems[k].amount_cents ELSE 0) + SumOfAmounts(d, k + 1)

\* the selection of the example: the item of 10.00 twice, the item of 5.50 once
IsTheExample(d) ==
    /\ items[1].item_price = [whole |-> 10, frac |-> 0]
    /\ items[2].item_price = [whole |-> 5, frac |-> 50]
    /\ \E k \in ItemsOfDispute(d) :
         /\ ItemsOfDispute(d) = {k, k + 1}
         /\ disputeItems[k].receipt_item_id = 1
         /\ disputeItems[k].quantity = 2
         /\ disputeItems[k + 1].receipt_item_id = 2
         /\ disputeItems[k + 1].quantity = 1

RECURSIVE SumOfSelected(_, _)
SumOfSelected(selected, i) ==
    IF i > Len(selected) THEN 0
    ELSE selected[i].amount_cents + SumOfSelected(selected, i + 1)

C19_DisputedWithinPurchased ==
    \A k \in 1..Len(disputeItems) :
        disputeItems[k].quantity
            <= items[disputeItems[k].receipt_item_id].quantity

\* a request with a selected item that lacks a receipt_item_id, or names an
\* item that is not of the receipt, has written nothing, and its next step
\* answers it with a validation error (or with the failure to fetch the
\* receipt's items) and writes nothing
RefusedUnwritten ==
    \A p \in Procs :
        calls[p].op = "dispute" /\ FirstRefusedItem(calls[p]) # 0 =>
           /\ calls[p].pc = "d_items"
           /\ calls'[p].op = "idle"
           /\ disputes' = disputes
           /\ disputeItems' = disputeItems
           /\ hist'.last.op = "dispute"
           /\ ~hist'.last.result.valid
           /\ \/ /\ hist'.last.result.code = 400
                 /\ hist'.last.result.reason = "Validation error"
              \/ /\ hist'.last.result.code = 500
                 /\ hist'.last.result.message = "Failed to fetch receipt items"

\* C20: a create-dispute request in which a selected item lacks a
\* receipt_item_id or names an item that is not of the receipt is refused
\* with a validation error, and no Dispute and no DisputeItem is written for
\* it, also when the items before it in the selection were valid.
C20_RefusedWritesNothing == [][RefusedUnwritten]_vars

\* C20 witness: a request whose first selected item was valid and whose
\* second was not has been refused with a validation error, and both tables
\* are empty
C20_SecondItemRefused ==
    /\ hist.last.op = "dispute"
    /\ hist.last.refusedItem = 2
    /\ hist.last.result.code = 400
    /\ hist.last.result.reason = "Validation error"
    /\ hist.last.result.message \in
           {"Each selected item must have a receipt_item_id",
            "Receipt item not found in receipt"}
    /\ disputes = <<>>
    /\ disputeItems = <<>>

\* C21: for every request that has passed validation, the quantity of each
\* selected item is the quantity the caller supplied, which is greater than
\* 0, or the full quantity of the receipt item when the caller supplied
\* none; a supplied quantity of zero or less never passes validation.
C21_QuantityAsSupplied ==
    \A p \in Procs :
        LET c == calls[p]
        IN  c.pc \in {"d_insert", "d_retry", "d_dispute_items"} =>
              /\ Len(c.validSelectedItems) = Len(c.selected_items)
              /\ \A i \in 1..Len(c.selected_items) :
                   IF "quantity" \in DOMAIN c.selected_items[i]
                   THEN /\ c.selected_items[i].quantity > 0
                        /\ c.validSelectedItems[i].quantity =
                               c.selected_items[i].quantity
                   ELSE c.validSelectedItems[i].quantity =
                            items[c.selected_items[i].receipt_item_id].quantity

(***************************************************************************)
(* Scenarios: calls made one after the other                               *)
(***************************************************************************)
\* the share of token `tok` is not past its expiry at time t
Unexpired(share, t) == share.expires_at = NULL \/ share.expires_at >= t

\* the receipt came from ingestion and has no refund and no active dispute
PlainReceipt(receiptId) ==
    /\ receipts[receiptId].source = "webhook"
    /\ ~receipts[receiptId].refunded
    /\ ActiveDisputes(receiptId) = <<>>

\* a step in which getReceiptByToken returns for the token created for a
\* plain receipt: the first call made after the token's creation returns
\* VALID and the view count 1; the call made after one earlier read and a
\* void returns INVALID and the view count 2, which is also what is stored
CreateReadVoidRead ==
    \A i \in 1..Len(shares) :
        (/\ hist'.last.op = "get"
         /\ hist'.last.token = shares[i].token
         /\ PlainReceipt(shares[i].receipt_id)
         /\ Unexpired(shares[i], now')) =>
            /\ hist.returned = 0 =>
                 /\ hist'.last.result.state = "VALID"
                 /\ hist'.last.result.view_count = 1
                 /\ shares'[i].view_count = 1
            /\ hist'.last.afterVoid /\ shares[i].view_count = 1 =>
                 /\ hist'.last.result.state = "INVALID"
                 /\ hist'.last.result.view_count = 2
                 /\ shares'[i].view_count = 2

\* C22: for a receipt with no refund and no dispute, the getReceiptByToken
\* that follows createOrGetShareToken returns VALID with the view count 1,
\* and the getReceiptByToken that follows a voidShareToken on that token
\* returns INVALID with the view count 2: the voided read is counted.
C22_CreateReadVoidRead == [][CreateReadVoidRead]_vars

\* C22 witness: three calls have returned, a read, a void and this read,
\* which returned INVALID with the view count 2 for a plain receipt
C22_SecondReadAfterVoid ==
    /\ hist.returned = 3
    /\ hist.last.op = "get"
    /\ hist.last.afterVoid
    /\ hist.last.result.state = "INVALID"
    /\ hist.last.result.view_count = 2
    /\ shares[1].view_count = 2
    /\ shares[1].status = "voided"
    /\ PlainReceipt(1)
    /\ Unexpired(shares[1], now)

\* the receipt is not refunded and carries no demonstration override
NoOverride(receiptId) ==
    /\ ~receipts[receiptId].refunded
    /\ ~receipts[receiptId].demo_refunded
    /\ ~receipts[receiptId].demo_disputed
    /\ ~receipts[receiptId].demo_expired_qr

\* a step in which getReceiptByToken returns for a token that is not past
\* its expiry, not voided and not consumed, on a receipt that is not
\* refunded, having read the receipt's disputes: DISPUTED when one of them is
\* submitted or in_review, VALID otherwise
DisputedWhileActive ==
    \A i \in 1..Len(shares) :
        (/\ hist'.last.op = "get"
         /\ hist'.last.token = shares[i].token
         /\ hist'.last.found
         /\ ~hist'.last.disputesMissed
         /\ Unexpired(shares[i], now')
         /\ shares[i].status # "voided"
         /\ ~(shares[i].single_use /\ shares[i].used_at # NULL)
         /\ NoOverride(shares[i].receipt_id)) =>
            hist'.last.result.state =
                IF \E d \in 1..Len(disputes) :
                      /\ disputes[d].receipt_id = shares[i].receipt_id
                      /\ disputes[d].status \in {"submitted", "in_review"}
                THEN "DISPUTED" ELSE "VALID"

RefundedOnceRefunded ==
    \A i \in 1..Len(shares) :
        (/\ hist'.last.op = "get"
         /\ hist'.last.token = shares[i].token
         /\ hist'.last.found
         /\ Unexpired(shares[i], now')
         /\ shares[i].status # "voided"
         /\ receipts[shares[i].receipt_id].refunded) =>
            hist'.last.result.state = "REFUNDED"

\* the override of a simulated receipt that the resolver finds before it
\* looks at the refund
OverriddenBeforeRefund(receipt) ==
    /\ receipt.source = "simulated"
    /\ receipt.demo_expired_qr \/ (receipt.demo_disputed /\ ~receipt.demo_refunded)

\* the same step, for a token that is not consumed either and a receipt
\* without such an override
RefundedOnceRefundedUnlessConsumed ==
    \A i \in 1..Len(shares) :
        (/\ hist'.last.op = "get"
         /\ hist'.last.token = shares[i].token
         /\ hist'.last.found
         /\ Unexpired(shares[i], now')
         /\ shares[i].status # "voided"
         /\ ~(shares[i].single_use /\ shares[i].used_at # NULL)
         /\ ~OverriddenBeforeRefund(receipts[shares[i].receipt_id])
         /\ receipts[shares[i].receipt_id].refunded) =>
            hist'.last.result.state = "REFUNDED"

\* C24 as stated: once a receipt is marked refunded, every later
\* getReceiptByToken on a token of that receipt that is not expired and not
\* voided returns REFUNDED.
C24_RefundedOnceRefunded == [][RefundedOnceRefunded]_vars

\* C24: once a receipt is marked refunded, every later getReceiptByToken on a
\* token of that receipt that is not expired, not voided and not a consumed
\* single-use token returns REFUNDED, unless the receipt is a simulated one
\* whose demonstration override resolves first.
C24_RefundedUnlessConsumed == [][RefundedOnceRefundedUnlessConsumed]_vars

\* C24 witness: the receipt is refunded and the second read of its token
\* has returned REFUNDED, with an active dispute on the receipt as well
C24_ReadAfterRefund ==
    /\ hist.last.op = "get"
    /\ hist.last.result.state = "REFUNDED"
    /\ hist.last.result.view_count = 2
    /\ receipts[1].refunded
    /\ ActiveDisputes(1) # <<>>
    /\ shares[1].status = "active"
    /\ Unexpired(shares[1], now)

(***************************************************************************)
(* Properties of the confidence gate                                       *)
(***************************************************************************)
\* the rule: hidden exactly when the label is not HIGH and the score is
\* present and strictly less than the threshold
Hidden(receipt, threshold) ==
    /\ receipt.confidence_label # "HIGH"
    /\ receipt.confidence_score # NULL
    /\ receipt.confidence_score < threshold

\* what an endpoint shows of receipt `id` follows the rule
GateApplied(shown, id) ==
    /\ shown.below_threshold = Hidden(receipts[id], probe.threshold)
    /\ shown.receipt_items =
           IF Hidden(receipts[id], probe.threshold) THEN <<>>
           ELSE SelectSeq(items, LAMBDA row : row.receipt_id = id)

\* C25: the receipt list and the receipt detail endpoints hide a receipt's
\* items exactly when its confidence label is not HIGH and its confidence
\* score is present and strictly less than the threshold (a HIGH receipt is
\* visible at any score, a receipt with no score at any threshold, a score
\* equal to the threshold is visible), and the detail endpoint reports
\* below_threshold true with an empty item list when it hides.
C25_GateHidesBelowThreshold ==
    /\ probe.list.code = 200 =>
         \A id \in 1..Len(receipts) : GateApplied(probe.list.receipts[id], id)
    /\ probe.detail.code = 200 => GateApplied(probe.detail, probe.detail.id)

\* C25 witness: a MEDIUM receipt with the score 80 and one item has been
\* read through both endpoints at the threshold 85, and both hid the item
C25_MediumHidden ==
    /\ receipts[1].confidence_label = "MEDIUM"
    /\ receipts[1].confidence_score = 80
    /\ probe.threshold = 85
    /\ items # <<>>
    /\ probe.list.code = 200
    /\ probe.list.receipts[1].below_threshold
    /\ probe.list.receipts[1].receipt_items = <<>>
    /\ probe.detail.code = 200
    /\ probe.detail.below_threshold
    /\ probe.detail.receipt_items = <<>>

(***************************************************************************)
(* Degraded ingestion                                                      *)
(***************************************************************************)
\* the step taken ends the webhook call of slot p
WebhookReturns(p) == calls[p].op = "webhook" /\ calls'[p].op = "idle"

\* the call of slot p lost its order: the processor holds one for the
\* payment, and the call went on without it
OrderFetchFailed(c) ==
    /\ c.pc \in {"w_insert", "w_existing"}
    /\ square[c.payment_id] # NULL
    /\ c.lines = NULL

\* what a call that holds its receipt reports when it has no items to show:
\* processed, the receipt's id, no items, and the receipt is in the store
ProcessedWithoutItems(p, receiptId) ==
    /\ hist'.last.result.processed
    /\ hist'.last.result.receipt_id = receiptId
    /\ hist'.last.result.item_count = 0
    /\ receiptId \in 1..Len(receipts')
    /\ receipts'[receiptId].payment_id = calls[p].payment_id

\* neither failure ends the call or touches the receipt
FailuresTolerated ==
    \A p \in Procs :
        LET c == calls[p]
        IN  /\ c.pc = "w_order" => calls'[p].op = "webhook"
            /\ (WebhookReturns(p) /\ OrderFetchFailed(c)
                   /\ hist'.last.result.receipt_id # NULL) =>
                  ProcessedWithoutItems(p, hist'.last.result.receipt_id)
            /\ (WebhookReturns(p) /\ c.pc = "w_items" /\ items' = items) =>
                  /\ ProcessedWithoutItems(p, c.receipt_id)
                  /\ receipts' = receipts

\* C26: a failure to fetch the order, or a failure to insert the receipt
\* items, neither fails nor undoes the creation of the receipt: the call
\* still reports processed: true with the receipt's id and itemCount 0, and
\* the receipt row stays in the store.
C26_FailuresTolerated == [][FailuresTolerated]_vars

\* C26 witness: the processor holds an order with line items for the
\* payment, the call that created the receipt has reported processed: true
\* with itemCount 0, and the receipt is stored without items
C26_ReceiptWithoutItems ==
    /\ hist.last.op = "webhook"
    /\ hist.last.fresh
    /\ ~hist.last.duplicate
    /\ hist.last.result.processed
    /\ hist.last.result.item_count = 0
    /\ square[hist.last.payment_id] # NULL
    /\ square[hist.last.payment_id] > 0
    /\ hist.last.result.receipt_id \in 1..Len(receipts)
    /\ \A k \in 1..Len(items) :
         items[k].receipt_id # hist.last.result.receipt_id

(***************************************************************************)
(* Token generation                                                        *)
(***************************************************************************)
\* one turn of the loop of slot p: the candidate drawn was not found and the
\* loop ends with it, or it was found and the loop goes on with one more
\* attempt counted, or it was found on the fifth attempt and the call fails
\* without an insert
DrawsAtMostFive ==
    \A p \in Procs :
        LET c == calls[p]
        IN  /\ c.op = "share" => c.attempts < maxAttempts
            /\ c.pc = "c_check" /\ calls'[p] # c =>
                 /\ shares' = shares
                 /\ \/ /\ calls'[p].pc \in {"c_settings", "c_insert"}
                       /\ calls'[p].attempts = c.attempts
                       /\ IsAbsent(SingleShare(calls'[p].token))
                    \/ /\ calls'[p].pc = "c_check"
                       /\ calls'[p].attempts = c.attempts + 1
                       /\ ~IsAbsent(SingleShare(calls'[p].token))
                    \/ /\ calls'[p].op = "idle"
                       /\ c.attempts = maxAttempts - 1
                       /\ hist'.last.result.status = "error"
                       /\ hist'.last.result.reason =
                              "Failed to generate unique token"

\* the loop never ends with the candidate it has just seen colliding
CollidedNeverKept ==
    \A p \in Procs :
        (/\ calls[p].pc = "c_check"
         /\ calls[p].attempts > 0
         /\ calls'[p].pc \in {"c_settings", "c_insert"}) =>
            calls'[p].token # calls[p].token

\* C27: token generation draws at most 5 candidates and ends either with a
\* candidate its check did not find in the store or, after 5 colliding
\* candidates, with a failure that inserts no row; and a candidate the call
\* has seen colliding is never the one it goes on to insert.
C27_GenerationBounded == [][DrawsAtMostFive /\ CollidedNeverKept]_vars

(***************************************************************************)
(* The lazy transition to expired                                          *)
(***************************************************************************)
\* C28: in every reachable state a token whose stored status is expired has
\* an expires_at, and it lies in the past.
C28_ExpiredOnlyPastExpiry ==
    \A i \in 1..Len(shares) :
        shares[i].status = "expired" =>
            shares[i].expires_at # NULL /\ shares[i].expires_at < now

(***************************************************************************)
(* verifyShareToken against getReceiptByToken                              *)
(***************************************************************************)
\* the state getReceiptByToken resolves for `token` from the store and the
\* clock as they are, its queries answered
getReceiptByTokenState(token) ==
    LET share == SingleShare(token)
    IN  IF IsAbsent(share) THEN "INVALID"
        ELSE LET receipt == SingleReceipt(share.receipt_id)
             IN  IF IsAbsent(receipt) THEN "INVALID"
                 ELSE determineVerificationState(share, receipt,
                                                 ActiveDisputes(receipt.id), now)

\* the step in which a verifyShareToken call settles on valid: false
RefusedNow == hist'.last.op = "verify" /\ ~hist'.last.result.valid

\* the refusal of a second markAsUsed on a token whose status is used
RefusedAsUsed ==
    /\ RefusedNow
    /\ hist'.last.markAsUsed
    /\ hist'.last.result.reason = "Token already used"

\* the step in which the call in slot p settles on valid: true
AcceptedNow(p) == calls[p].pc = "v_disputes" /\ calls'[p].pc = "v_update"

\* a verification that settles in this step agrees with what
\* getReceiptByToken resolves from the state the step starts in; a dispute
\* query that failed and hid an active dispute is set aside
AgreesWithGet(excepted) ==
    /\ (RefusedNow /\ ~hist'.last.disputesMissed /\ ~excepted) =>
           getReceiptByTokenState(hist'.last.token) # "VALID"
    /\ \A p \in Procs :
           (AcceptedNow(p) /\ ~calls'[p].disputesMissed) =>
               getReceiptByTokenState(calls[p].token) = "VALID"

AttemptCounted ==
    \A i \in 1..Len(shares) :
        (/\ hist'.last.op = "verify"
         /\ hist'.last.found
         /\ hist'.last.token = shares[i].token) =>
            shares'[i].verification_attempts =
                shares[i].verification_attempts + 1

\* C30: each verifyShareToken call that finds the token increments the
\* stored verification_attempts by 1, also when it ends with valid: false.
C30_EveryAttemptCounted == [][AttemptCounted]_vars

(***************************************************************************)
(* A read of a token that was never stored                                 *)
(***************************************************************************)
\* the step just taken is a whole getReceiptByToken call on a token string
\* that matches no stored row
UnknownTokenRead ==
    /\ hist'.last.op = "get"
    /\ SharesByToken(hist'.last.token) = {}

\* C31: getReceiptByToken called with a token string that matches no stored
\* share token returns INVALID in the step it arrives in and leaves the
\* whole store unchanged: no counter, status or used_at of any token is
\* written, and no receipt, item or dispute changes.
C31_UnknownTokenWritesNothing ==
    [][UnknownTokenRead =>
          /\ hist'.started = hist.started + 1
          /\ hist'.last.result.state = "INVALID"
          /\ hist'.last.result.reason = "Token not found"
          /\ shares' = shares
          /\ receipts' = receipts
          /\ disputes' = disputes
          /\ items' = items
          /\ disputeItems' = disputeItems]_vars

\* an unknown token was read after a read of the stored token had been
\* counted, and the stored counters are as that read left them
C31_UnknownReadAfterCountedRead ==
    /\ hist.last.op = "get"
    /\ hist.last.token = "tokB"
    /\ ~hist.last.found
    /\ hist.last.result.state = "INVALID"
    /\ shares[1].view_count = 1
    /\ shares[1].verification_attempts = 1

(***************************************************************************)
(* The order of the two inserts of POST /api/disputes                      *)
(***************************************************************************)
\* every DisputeItem names a stored Dispute, and a step that writes
\* DisputeItems finds their Dispute stored already
DisputeBeforeItems ==
    /\ \A k \in 1..Len(disputeItems') :
           disputeItems'[k].dispute_id \in 1..Len(disputes')
    /\ disputeItems' # disputeItems =>
           /\ disputes' = disputes
           /\ \A k \in (Len(disputeItems) + 1)..Len(disputeItems') :
                  /\ disputeItems'[k].dispute_id \in 1..Len(disputes)
                  /\ disputes[disputeItems'[k].dispute_id].status = "submitted"

\* the request in slot p answers after its DisputeItems insert, whether
\* the insert stored the rows or failed: the Dispute stays and the answer
\* is 201 with its id
AnsweredAfterItems(p) ==
    (calls[p].pc = "d_dispute_items" /\ calls'[p].op = "idle") =>
        /\ disputes' = disputes
        /\ calls[p].dispute_id \in 1..Len(disputes)
        /\ disputes[calls[p].dispute_id].receipt_id = calls[p].receipt_id
        /\ hist'.last.result.code = 201
        /\ hist'.last.result.valid
        /\ hist'.last.result.dispute_id = calls[p].dispute_id
        /\ hist'.last.result.status = "submitted"

\* C32: the Dispute row (status submitted) is inserted before its
\* DisputeItems, so no DisputeItem exists without its Dispute; when the
\* DisputeItems insert fails after the Dispute insert succeeded, the
\* Dispute row is kept and the caller receives success with the dispute id.
C32_DisputeBeforeItems ==
    [][DisputeBeforeItems /\ \A p \in Procs : AnsweredAfterItems(p)]_vars

\* a request was answered 201 although its DisputeItems insert had failed:
\* the Dispute is stored and has no items
C32_DisputeKeptWithoutItems ==
    /\ hist.last.op = "dispute"
    /\ hist.last.result.code = 201
    /\ hist.last.result.dispute_id \in 1..Len(disputes)
    /\ \A k \in 1..Len(disputeItems) :
           disputeItems[k].dispute_id # hist.last.result.dispute_id

(***************************************************************************)
(* The second Dispute insert, without total_amount_cents                   *)
(***************************************************************************)
\* the first insert of the request in slot p failed on the missing column:
\* nothing is written and the second insert comes next
FirstInsertFellBack(p) ==
    (calls[p].pc = "d_insert" /\ calls'[p].pc = "d_retry") =>
        disputes' = disputes /\ disputeItems' = disputeItems

\* the second insert is made once: it stores the Dispute without a total
\* and the DisputeItems insert comes next, or it fails, the request answers
\* 500 and nothing is written
SecondInsertOnce(p) ==
    (calls[p].pc = "d_retry" /\ calls'[p] # calls[p]) =>
        /\ disputeItems' = disputeItems
        /\ \/ /\ calls'[p].pc = "d_dispute_items"
              /\ disputes' = Append(disputes,
                     [receipt_id |-> calls[p].receipt_id,
                      status |-> "submitted", total_amount_cents |-> NULL])
              /\ calls'[p].dispute_id = Len(disputes')
              /\ calls'[p].validSelectedItems = calls[p].validSelectedItems
           \/ /\ calls'[p].op = "idle"
              /\ disputes' = disputes
              /\ hist'.last.op = "dispute"
              /\ hist'.last.result.code = 500
              /\ ~hist'.last.result.valid

\* the DisputeItems of a Dispute stored without a total are inserted as
\* those of any other: one row per selected item, unless that insert fails
ItemsAfterSecondInsert(p) ==
    (/\ calls[p].pc = "d_dispute_items"
     /\ disputes[calls[p].dispute_id].total_amount_cents = NULL) =>
        /\ calls'[p].op = "idle"
        /\ hist'.last.result.code = 201
        /\ hist'.last.result.status = "submitted"
        /\ \/ disputeItems' = disputeItems
           \/ /\ Len(disputeItems') =
                     Len(disputeItems) + Len(calls[p].validSelectedItems)
              /\ \A k \in 1..Len(calls[p].validSelectedItems) :
                     LET row == disputeItems'[Len(disputeItems) + k]
                     IN  /\ row.dispute_id = calls[p].dispute_id
                         /\ row.receipt_item_id =
                                calls[p].validSelectedItems[k].receipt_item_id

\* C33: when the Dispute insert fails because the total-amount column is
\* missing, the insert is retried once without the total: if the retry
\* succeeds the Dispute is stored with status submitted and no total and
\* its DisputeItems are inserted next; if it fails the error is returned
\* and neither a Dispute nor a DisputeItem is written.
C33_RetriedOnceWithoutTotal ==
    [][\A p \in Procs : /\ FirstInsertFellBack(p)
                        /\ SecondInsertOnce(p)
                        /\ ItemsAfterSecondInsert(p)]_vars

\* a Dispute stored by the second insert, without a total, has its
\* DisputeItems and the request was answered 201
C33_StoredWithoutTotal ==
    /\ hist.last.op = "dispute"
    /\ hist.last.result.code = 201
    /\ hist.last.result.dispute_id \in 1..Len(disputes)
    /\ disputes[hist.last.result.dispute_id].total_amount_cents = NULL
    /\ \E k \in 1..Len(disputeItems) :
           disputeItems[k].dispute_id = hist.last.result.dispute_id

(***************************************************************************)
(* Events that write nothing                                               *)
(***************************************************************************)
\* the step just taken is a whole handleSquareWebhook call: the event was
\* answered where it arrived
AnsweredOnArrival ==
    /\ hist'.last.op = "webhook"
    /\ hist'.started = hist.started + 1

\* such an answer is processed: false, for an event of another type, an
\* event without a payment id or a payment that could not be fetched, and
\* the step writes no Receipt and no ReceiptItem
ArrivalWritesNothing ==
    AnsweredOnArrival =>
        /\ ~hist'.last.result.processed
        /\ hist'.last.result.receipt_id = NULL
        /\ hist'.last.result \in {Ignored("Event type ignored"),
                                  Ignored("Payment ID not found in event"),
                                  FailedFetch}
        /\ receipts' = receipts
        /\ items' = items

\* a Receipt or a ReceiptItem is written only by a call that holds the
\* payment it fetched
WrittenAfterFetch ==
    (receipts' # receipts \/ items' # items) =>
        \E p \in Procs : /\ calls[p].op = "webhook"
                         /\ calls[p].pc \in {"w_insert", "w_items"}
                         /\ calls[p].payment_id \in PaymentIds

\* C34: a receipt is written only after the payment was fetched: when the
\* payment fetch fails or returns no payment, handleSquareWebhook reports
\* processed: false with an error and writes no Receipt and no ReceiptItem;
\* an event whose type is not payment.created, or that carries no payment
\* id, also writes nothing.
C34_NothingWrittenWithoutPayment ==
    [][ArrivalWritesNothing /\ WrittenAfterFetch]_vars

\* the payment of the only event delivered could not be fetched, and the
\* store is empty
C34_FetchFailedStoreEmpty ==
    /\ hist.last.op = "webhook"
    /\ hist.last.result = FailedFetch
    /\ hist.last.payment_id \in PaymentIds
    /\ hist.started = 1
    /\ receipts = <<>>
    /\ items = <<>>

(***************************************************************************)
(* Administrative settings: what was written is what is read               *)
(***************************************************************************)
\* the field of the value and of the reply that belongs to a key
FieldOf(key) ==
    IF key = "confidence_threshold" THEN "threshold"
    ELSE IF key = "receipt_retention_days" THEN "days"
    ELSE "enabled"

\* a PUT answered 200 has stored the value it was sent and replies with it
PutStoresWhatWasSent ==
    (probe'.op = "put" /\ probe'.response.code = 200) =>
        LET field == FieldOf(probe'.key)
        IN  /\ ~IsAbsent(bankSettings'[probe'.key])
            /\ bankSettings'[probe'.key].value[field] = probe'.sent[field]
            /\ probe'.response[field] = probe'.sent[field]

\* a GET answered 200 from the stored row replies with the value the last
\* successful PUT of that key stored
GetReturnsWhatIsStored ==
    (/\ probe'.op = "get"
     /\ probe'.response.code = 200
     /\ probe'.readOk
     /\ ~IsAbsent(bankSettings[probe'.key])) =>
        LET field == FieldOf(probe'.key)
        IN  probe'.response[field] = bankSettings[probe'.key].value[field]

\* C35: after a successful PUT of the confidence threshold with any t in
\* 0..100 the next GET of the confidence threshold returns t; likewise
\* after a PUT of retention days d in 1..3650 the next GET returns d, and
\* after a PUT of the kill switch the next GET returns the value written.
C35_SettingsRoundTrip ==
    [][PutStoresWhatWasSent /\ GetReturnsWhatIsStored]_vars

(***************************************************************************)
(* Who writes used_at                                                      *)
(***************************************************************************)
\* the call in slot p is a getReceiptByToken call that returns in this step
\* having resolved VALID for row i, a single-use token it read unused
ConsumingRead(p, i) ==
    /\ calls[p].op = "get"
    /\ calls'[p].op = "idle"
    /\ hist'.last.op = "get"
    /\ hist'.last.result.state = "VALID"
    /\ calls[p].state = "VALID"
    /\ calls[p].share.id = i
    /\ calls[p].share.single_use
    /\ calls[p].share.used_at = NULL

\* used_at of a row changes only in such a step, to the current time; a row
\* that is not single-use keeps it unset, and a used_at that is set stays set
UsedAtFrame ==
    \A i \in 1..Len(shares) :
        /\ shares'[i].used_at # shares[i].used_at =>
               /\ \E p \in Procs : ConsumingRead(p, i)
               /\ shares[i].single_use
               /\ shares'[i].used_at = now
        /\ ~shares[i].single_use => shares'[i].used_at = NULL
        /\ shares[i].used_at # NULL => shares'[i].used_at # NULL

\* C36: used_at is written only by a getReceiptByToken call that resolved
\* VALID on a single-use token whose used_at was unset: a call that resolves
\* REFUNDED, DISPUTED, EXPIRED or INVALID never consumes the token, a token
\* that is not single-use never gets used_at, and once set used_at is never
\* cleared.
C36_UsedAtWrittenByValidReadOnly == [][UsedAtFrame]_vars

\* a single-use token was read, the read resolved REFUNDED and was counted,
\* and the token is still unused
C36_RefundedReadConsumesNothing ==
    /\ hist.last.op = "get"
    /\ hist.last.result.state = "REFUNDED"
    /\ hist.last.single_use
    /\ \E i \in 1..Len(shares) :
           /\ shares[i].token = hist.last.token
           /\ shares[i].view_count = 1
           /\ shares[i].used_at = NULL

(***************************************************************************)
(* A token marked used by the merchant                                     *)
(***************************************************************************)
\* C37: once verifyShareToken with markAsUsed has succeeded on a token, so
\* that its stored status is used, no later call reports it valid: a call
\* that reads the status used returns valid: false from verifyShareToken,
\* with markAsUsed or without, and a state other than VALID from
\* getReceiptByToken.
C37_UsedNeverValidAgain ==
    (hist.last.op \in {"get", "verify"} /\ hist.last.status = "used") =>
        /\ ~hist.last.result.valid
        /\ hist.last.result.state # "VALID"

(***************************************************************************)
(* Tokens of one receipt that never expire                                 *)
(***************************************************************************)
\* the stored tokens of a receipt that have no expiry
NeverExpiring(receiptId) ==
    {i \in 1..Len(shares) :
        shares[i].receipt_id = receiptId /\ shares[i].expires_at = NULL}

\* C38: in every reachable state, also those reached by concurrent
\* createOrGetShareToken calls for one receipt whose lookup and insert
\* interleave, each receipt has at most one share token without expiry.
C38_OneNeverExpiringToken ==
    \A r \in 1..Len(receipts) : Cardinality(NeverExpiring(r)) <= 1

(***************************************************************************)
(* The token a share request hands out                                     *)
(***************************************************************************)
\* C39: the token createOrGetShareToken returns for a receipt is never one
\* whose status is voided and never a single-use token whose used_at is
\* set, after any sequence of share, read and void calls.
C39_NoDeadTokenHandedOut ==
    (hist.last.op = "share" /\ hist.last.result.share_id # NULL) =>
        LET share == shares[hist.last.result.share_id]
        IN  /\ share.status # "voided"
            /\ ~(share.single_use /\ share.used_at # NULL)

(***************************************************************************)
(* A dispute query that fails                                              *)
(***************************************************************************)
\* C40: when the dispute query of a call fails for a receipt that has a
\* dispute with status submitted or in_review, getReceiptByToken does not
\* return VALID and verifyShareToken does not return valid: true.
C40_FailedQueryNeverValid ==
    (hist.last.op \in {"get", "verify"} /\ hist.last.disputesMissed) =>
        /\ hist.last.result.state # "VALID"
        /\ ~hist.last.result.valid

====
